---- MODULE Spec2Model ----
(***************************************************************************)
(* Body-composition calculator (servicos/calculadora_corporal.py) and      *)
(* circumference analyzer (servicos/analisador_perimetros.py).             *)
(*                                                                         *)
(* The functions are stateless; the state of the model is the last call    *)
(* made by the orchestration layer: its name (op), its arguments (args)    *)
(* and the value it returned (res).  A call is drawn with its arguments,   *)
(* the function is applied, and Concluir hands control back to the caller. *)
(*                                                                         *)
(* Numbers are fixed point, in the unit the name of each argument states:  *)
(*   decimos    1/10      (peso_kg, tmb, gasto, percentual)                *)
(*   meios      1/2       (altura_cm, dobras in mm, perimetros in cm)      *)
(*   centesimos 1/100     (imc)                                            *)
(*   milesimos  1/1000    (activity factors)                               *)
(*   1e-5                 (densidade_corporal)                             *)
(* hoje is the date of the system clock (date.today()); idade_lembrada is   *)
(* an age a caller obtained earlier and still holds.  sessao holds the     *)
(* mapping objects of the evaluations a page has loaded and passes, by     *)
(* reference, to the functions.  planilha is the rows of the "avaliacoes"   *)
(* worksheet, arquivo the clients of clientes.json with their evaluations, *)
(* conexao what _usar_sheets() answers now, and salvas the evaluations for *)
(* which adicionar_avaliacao returned True.                                *)
(* Where the range of binary64 matters, a float is its sign and the        *)
(* decimal exponent x of its magnitude 10^x (the operators named           *)
(* ..._binary64); such an operator yields the exception raised, or which   *)
(* return statement was reached.                                           *)
(* Python's round(x, n) rounds the binary64 value of x correctly, half to  *)
(* even.  When the real value of x is a decimal tie, the binary64 value    *)
(* computed by the code lies below it, on it or above it; the sign of that *)
(* error is the parameter e of the operators that round (-1, 0, 1).        *)
(***************************************************************************)
EXTENDS Integers, Sequences, FiniteSets, TLC

VARIABLES op, args, res, hoje, idade_lembrada, sessao,
          planilha, arquivo, conexao, salvas

\* the system clock and the age a caller keeps
relogio == <<hoje, idade_lembrada>>

\* the two stores of evaluations, which of them is in use, and the
\* evaluations whose saving was reported successful
armazenamento == <<planilha, arquivo, conexao, salvas>>

\* what the functions can read besides their arguments, and what their
\* callers keep between calls
ambiente == <<relogio, sessao, armazenamento>>

vars == <<op, args, res, ambiente>>

(***************************************************************************)
(* Bounds of the input domains.                                            *)
(***************************************************************************)
\* pesos: decimos of kg, 20.0 kg + 3.1 kg * k
MaxPesos == 40
\* alturas: meios of cm, 100.0 cm + 1.5 cm * k
MaxAlturas == 50
\* imc values given to classificar_imc, centesimos
MaxImc == 4200
\* idades: years, 15 * k
MaxIdades == 6
\* tmb values given to calcular_gasto_calorico_diario: decimos, 1670.0 + 0.1 * k
MaxTmbs == 60
\* densities given to calcular_percentual_gordura: 1e-5, 0.96500 + 0.00001 * k
MaxDensidades == 14000
\* percents given to classificar_percentual_gordura, decimos
MaxPercentual == 650
\* skinfold mappings: keys left out of the mapping, and base values 5.0 mm * k
MaxAusentes == 2
MaxBases == 8
\* sides given to calcular_diferenca_simetria, meios of cm
MaxLado == 120
\* circumference mappings: keys that depart from the base mapping
MaxDesvios == 2
\* pairs of circumference mappings: keys that depart from the base pair
MaxDesviosPar == 1
\* sums given to calcular_densidade_corporal_pollock7, meios: 10.0 mm * k
MaxSomas == 30
\* waists given to calcular_relacao_cintura_quadril, meios: 70.0 cm + 0.5 * k
MaxCinturas == 70
\* ratios given to classificar_rcq, centesimos: 0.70 + 0.01 * k
MaxRcq == 40
\* decimal exponents of the magnitudes given to the calculators: 20 * k
MaxExpoentes == 15
\* evaluations saved in the two stores together
MaxAvaliacoes == 2
\* percents of fat, half a point apart, up to 60
MaxMeiosPercentuais == 120
\* skinfold values of the form, 5 mm apart, up to 100 mm
MaxDobra == 20
\* years the system clock runs through, from 2024 on
MaxAnosHoje == 2
\* years of birth, up to 2000
MaxAnosNascimento == 2

(***************************************************************************)
(* Arithmetic helpers.                                                     *)
(***************************************************************************)
Abs(x) == IF x < 0 THEN -x ELSE x

\* sign of the binary64 error of a value whose arithmetic is inexact
ErrosBinarios == {-1, 0, 1}

\* round(num/den) to an integer, den > 0: nearest; on a tie the binary value
\* decides (e = -1 below, e = 1 above), and an exact tie goes to the even one
round(num, den, e) ==
    LET q == num \div den
        r == num % den
    IN  IF 2 * r < den THEN q
        ELSE IF 2 * r > den THEN q + 1
        ELSE IF e = 1 THEN q + 1
        ELSE IF e = -1 THEN q
        ELSE IF q % 2 = 0 THEN q ELSE q + 1

(***************************************************************************)
(* calculadora_corporal.py: age                                            *)
(* A date string "YYYY-MM-DD" is the sequence of its three fields; the     *)
(* empty string is the empty sequence.                                     *)
(***************************************************************************)
\* datetime.strptime(texto, "%Y-%m-%d").date()
strptime(texto) == [year |-> texto[1], month |-> texto[2], day |-> texto[3]]

\* Python's (a1, a2) < (b1, b2)
TuplaMenor(a, b) == a[1] < b[1] \/ (a[1] = b[1] /\ a[2] < b[2])

\* calcular_idade taking one year off on the birthday too
calcular_idade_ate_aniversario(data_nascimento) ==
    IF data_nascimento = <<>> THEN 0
    ELSE LET nascimento == strptime(data_nascimento)
             idade == hoje.year - nascimento.year
         IN  IF ~TuplaMenor(<<nascimento.month, nascimento.day>>,
                            <<hoje.month, hoje.day>>)
             THEN idade - 1
             ELSE idade

\* reads the system clock: hoje = date.today()
calcular_idade(data_nascimento) ==
    IF data_nascimento = <<>> THEN 0
    ELSE LET nascimento == strptime(data_nascimento)
             idade == hoje.year - nascimento.year
         IN  IF TuplaMenor(<<hoje.month, hoje.day>>,
                           <<nascimento.month, nascimento.day>>)
             THEN idade - 1
             ELSE idade

(***************************************************************************)
(* calculadora_corporal.py: IMC                                            *)
(***************************************************************************)
\* CLASSIFICACOES_IMC: (limite in centesimos, classificacao); float("inf")
\* is the row with infinito = TRUE
CLASSIFICACOES_IMC ==
    << [limite |-> 1850, infinito |-> FALSE, classificacao |-> "Abaixo do peso"],
       [limite |-> 2490, infinito |-> FALSE, classificacao |-> "Peso normal"],
       [limite |-> 2990, infinito |-> FALSE, classificacao |-> "Sobrepeso"],
       [limite |-> 3490, infinito |-> FALSE, classificacao |-> "Obesidade grau I"],
       [limite |-> 3990, infinito |-> FALSE, classificacao |-> "Obesidade grau II"],
       [limite |-> 0,    infinito |-> TRUE,  classificacao |-> "Obesidade grau III"] >>

\* valor <= limite, where the limit of a row may be float("inf")
MenorOuIgualLimite(valor, linha) == linha.infinito \/ valor <= linha.limite

MenorQueLimite(valor, linha) == linha.infinito \/ valor < linha.limite

\* for limite, classificacao in tabela: if valor <= limite: return classificacao
\* falls through to "Não classificado"
RECURSIVE PercorrerTabelaEstrito(_, _, _)
PercorrerTabelaEstrito(tabela, valor, i) ==
    IF i > Len(tabela) THEN "Não classificado"
    ELSE IF MenorQueLimite(valor, tabela[i]) THEN tabela[i].classificacao
    ELSE PercorrerTabelaEstrito(tabela, valor, i + 1)

RECURSIVE PercorrerTabela(_, _, _)
PercorrerTabela(tabela, valor, i) ==
    IF i > Len(tabela) THEN "Não classificado"
    ELSE IF MenorOuIgualLimite(valor, tabela[i]) THEN tabela[i].classificacao
    ELSE PercorrerTabela(tabela, valor, i + 1)

\* calcular_imc(peso_kg [decimos], altura_cm [meios]) -> imc [centesimos]
\*   altura_metros = h/200; imc = (p/10) / (h/200)^2 = 4000 p / h^2
calcular_imc_truncado(peso_kg, altura_cm, e) ==
    IF peso_kg <= 0 \/ altura_cm <= 0 THEN 0
    ELSE (400000 * peso_kg) \div (altura_cm * altura_cm)

calcular_imc(peso_kg, altura_cm, e) ==
    IF peso_kg <= 0 \/ altura_cm <= 0 THEN 0
    ELSE round(400000 * peso_kg, altura_cm * altura_cm, e)

\* classificar_imc(imc [centesimos])
classificar_imc_estrito(imc) ==
    IF imc <= 0 THEN "Não calculado"
    ELSE PercorrerTabelaEstrito(CLASSIFICACOES_IMC, imc, 1)

classificar_imc(imc) ==
    IF imc <= 0 THEN "Não calculado"
    ELSE PercorrerTabela(CLASSIFICACOES_IMC, imc, 1)

\* obter_cor_imc(imc [centesimos])
obter_cor_imc(imc) ==
    IF imc <= 0 THEN "#808080"
    ELSE IF imc < 1850 THEN "#3498db"
    ELSE IF imc < 2500 THEN "#2ecc71"
    ELSE IF imc < 3000 THEN "#f39c12"
    ELSE "#e74c3c"

\* calcular_peso_ideal(altura_cm [meios], genero) -> (decimos, decimos)
\*   18.5 (h/200)^2 kg = 185 h^2 / 40000 decimos,
\*   24.9 (h/200)^2 kg = 249 h^2 / 40000 decimos
calcular_peso_ideal(altura_cm, genero, e1, e2) ==
    IF altura_cm <= 0 THEN <<0, 0>>
    ELSE << round(185 * altura_cm * altura_cm, 40000, e1),
            round(249 * altura_cm * altura_cm, 40000, e2) >>

(***************************************************************************)
(* calculadora_corporal.py: TMB and daily expenditure                      *)
(***************************************************************************)
\* str.lower() on the gender strings the model passes
lower(s) ==
    CASE s = "Masculino" -> "masculino"
      [] s = "MASCULINO" -> "masculino"
      [] s = "Feminino"  -> "feminino"
      [] s = "FEMININO"  -> "feminino"
      [] s = "Outro"     -> "outro"
      [] OTHER           -> s

\* FATORES_ATIVIDADE, milesimos
FATORES_ATIVIDADE ==
    [n \in {"Sedentário", "Levemente ativo", "Moderadamente ativo",
            "Muito ativo", "Extremamente ativo"} |->
        CASE n = "Sedentário"          -> 1200
          [] n = "Levemente ativo"     -> 1375
          [] n = "Moderadamente ativo" -> 1550
          [] n = "Muito ativo"         -> 1725
          [] n = "Extremamente ativo"  -> 1900]

\* calcular_tmb(peso_kg [decimos], altura_cm [meios], idade, genero) -> decimos
\*   tmb_base in milesimos: 10 * p/10 + 6.25 * h/2 - 5 * idade.  Every operand
\*   is a binary fraction (10 * peso_kg is exact for every peso given to one
\*   decimal), so the value rounded is exact: e = 0
calcular_tmb_idade_somada(peso_kg, altura_cm, idade, genero) ==
    IF peso_kg <= 0 \/ altura_cm <= 0 \/ idade <= 0 THEN 0
    ELSE LET tmb_base == 1000 * peso_kg + 3125 * altura_cm + 5000 * idade
             tmb == IF lower(genero) = "masculino" THEN tmb_base + 5000
                    ELSE tmb_base - 161000
         IN  round(tmb, 100, 0)

calcular_tmb_constante_errada(peso_kg, altura_cm, idade, genero) ==
    IF peso_kg <= 0 \/ altura_cm <= 0 \/ idade <= 0 THEN 0
    ELSE LET tmb_base == 1000 * peso_kg + 3125 * altura_cm - 5000 * idade
             tmb == IF lower(genero) = "masculino" THEN tmb_base + 5000
                    ELSE tmb_base - 151000
         IN  round(tmb, 100, 0)

calcular_tmb(peso_kg, altura_cm, idade, genero) ==
    IF peso_kg <= 0 \/ altura_cm <= 0 \/ idade <= 0 THEN 0
    ELSE LET tmb_base == 1000 * peso_kg + 3125 * altura_cm - 5000 * idade
             tmb == IF lower(genero) = "masculino" THEN tmb_base + 5000
                    ELSE tmb_base - 161000
         IN  round(tmb, 100, 0)

\* calcular_gasto_calorico_diario(tmb [decimos], nivel_atividade) -> decimos
\*   fator = FATORES_ATIVIDADE.get(nivel_atividade, 1.2)
calcular_gasto_calorico_diario_padrao_um(tmb, nivel_atividade, e) ==
    IF tmb <= 0 THEN 0
    ELSE LET fator == IF nivel_atividade \in DOMAIN FATORES_ATIVIDADE
                      THEN FATORES_ATIVIDADE[nivel_atividade]
                      ELSE 1000
         IN  round(tmb * fator, 1000, e)

calcular_gasto_calorico_diario(tmb, nivel_atividade, e) ==
    IF tmb <= 0 THEN 0
    ELSE LET fator == IF nivel_atividade \in DOMAIN FATORES_ATIVIDADE
                      THEN FATORES_ATIVIDADE[nivel_atividade]
                      ELSE 1200
         IN  round(tmb * fator, 1000, e)

(***************************************************************************)
(* calculadora_corporal.py: skinfolds, Pollock 7                           *)
(***************************************************************************)
\* CLASSIFICACOES_GORDURA_MASCULINO / _FEMININO: limite in decimos
CLASSIFICACOES_GORDURA_MASCULINO ==
    << [limite |-> 59,  infinito |-> FALSE, classificacao |-> "Essencial"],
       [limite |-> 139, infinito |-> FALSE, classificacao |-> "Atlético"],
       [limite |-> 179, infinito |-> FALSE, classificacao |-> "Fitness"],
       [limite |-> 249, infinito |-> FALSE, classificacao |-> "Aceitável"],
       [limite |-> 0,   infinito |-> TRUE,  classificacao |-> "Obesidade"] >>

CLASSIFICACOES_GORDURA_FEMININO ==
    << [limite |-> 139, infinito |-> FALSE, classificacao |-> "Essencial"],
       [limite |-> 209, infinito |-> FALSE, classificacao |-> "Atlético"],
       [limite |-> 249, infinito |-> FALSE, classificacao |-> "Fitness"],
       [limite |-> 319, infinito |-> FALSE, classificacao |-> "Aceitável"],
       [limite |-> 0,   infinito |-> TRUE,  classificacao |-> "Obesidade"] >>

\* chaves of calcular_soma_7_dobras, in the order of the list
CHAVES_DOBRAS ==
    << "peitoral", "axilar_media", "triceps", "subescapular",
       "abdominal", "suprailiaca", "coxa" >>

\* dict.get(chave, 0)
get(d, chave) == IF chave \in DOMAIN d THEN d[chave] ELSE 0

\* sum(d.get(chave, 0) for chave in chaves[i..])
RECURSIVE SomarChaves(_, _, _)
SomarChaves(d, chaves, i) ==
    IF i > Len(chaves) THEN 0
    ELSE get(d, chaves[i]) + SomarChaves(d, chaves, i + 1)

\* sum over every key of the mapping
RECURSIVE SomarTodas(_, _)
SomarTodas(d, ks) ==
    IF ks = {} THEN 0
    ELSE LET k == CHOOSE x \in ks : TRUE
         IN  d[k] + SomarTodas(d, ks \ {k})

\* calcular_soma_7_dobras(dobras [meios of mm]) -> meios of mm
calcular_soma_7_dobras_todas(dobras) == SomarTodas(dobras, DOMAIN dobras)

calcular_soma_7_dobras(dobras) == SomarChaves(dobras, CHAVES_DOBRAS, 1)

\* calcular_densidade_corporal_pollock7(soma_dobras [meios], idade, genero)
\*   -> densidade in 1e-5.  dc is computed in units of 2.5e-9 (1 = 400000000):
\*   with S = s/2, 0.00043499 S = 86998 s, 0.00000055 S^2 = 55 s^2,
\*   0.00028826 idade = 115304 idade; 0.00046971 S = 93942 s,
\*   0.00000056 S^2 = 56 s^2, 0.00012828 idade = 51312 idade
calcular_densidade_corporal_pollock7(soma_dobras, idade, genero, e) ==
    IF soma_dobras <= 0 \/ idade <= 0 THEN 0
    ELSE LET dc == IF lower(genero) = "masculino"
                   THEN 444800000 - 86998 * soma_dobras
                        + 55 * soma_dobras * soma_dobras - 115304 * idade
                   ELSE 438800000 - 93942 * soma_dobras
                        + 56 * soma_dobras * soma_dobras - 51312 * idade
         IN  round(dc, 4000, e)

\* calcular_percentual_gordura(densidade_corporal [1e-5]) -> decimos
\*   percentual = (4.95/dc - 4.5) * 100 is, in decimos, 495000000/d - 4500:
\*   inteiro + resto/d with 0 <= resto < d
calcular_percentual_gordura_sem_teto(densidade_corporal, e) ==
    IF densidade_corporal <= 0 THEN 0
    ELSE LET inteiro == (495000000 \div densidade_corporal) - 4500
             resto == 495000000 % densidade_corporal
         IN  IF inteiro < 0 THEN 0
             ELSE inteiro + round(resto, densidade_corporal, e)

calcular_percentual_gordura(densidade_corporal, e) ==
    IF densidade_corporal <= 0 THEN 0
    ELSE LET inteiro == (495000000 \div densidade_corporal) - 4500
             resto == 495000000 % densidade_corporal
         IN  \* max(0, min(percentual, 60))
             IF inteiro >= 600 THEN 600
             ELSE IF inteiro < 0 THEN 0
             ELSE inteiro + round(resto, densidade_corporal, e)

\* classificar_percentual_gordura(percentual [decimos], genero)
classificar_percentual_gordura_sem_genero(percentual, genero) ==
    IF percentual <= 0 THEN "Não calculado"
    ELSE PercorrerTabela(CLASSIFICACOES_GORDURA_MASCULINO, percentual, 1)

classificar_percentual_gordura(percentual, genero) ==
    IF percentual <= 0 THEN "Não calculado"
    ELSE LET classificacoes == IF lower(genero) = "masculino"
                               THEN CLASSIFICACOES_GORDURA_MASCULINO
                               ELSE CLASSIFICACOES_GORDURA_FEMININO
         IN  PercorrerTabela(classificacoes, percentual, 1)

\* calcular_gordura_pollock7(dobras, idade, genero); e1 and e2 are the binary
\* errors of the density and of the percent
calcular_gordura_pollock7(dobras, idade, genero, e1, e2) ==
    LET soma == calcular_soma_7_dobras(dobras)
        densidade == calcular_densidade_corporal_pollock7(soma, idade, genero, e1)
        percentual == calcular_percentual_gordura(densidade, e2)
        classificacao == classificar_percentual_gordura(percentual, genero)
    IN  [soma_dobras |-> soma,
         densidade_corporal |-> densidade,
         percentual_gordura |-> percentual,
         classificacao |-> classificacao]

\* calcular_massas_corporais(peso_kg [decimos], percentual_gordura [decimos])
\*   -> decimos; massa_gorda = p g / 1000, massa_magra = (1000 p - p g) / 1000;
\*   e1 and e2 are the binary errors of the two values at a decimal tie
calcular_massas_corporais(peso_kg, percentual_gordura, e1, e2) ==
    IF peso_kg <= 0 \/ percentual_gordura < 0
    THEN [massa_gorda |-> 0, massa_magra |-> 0]
    ELSE [massa_gorda |-> round(peso_kg * percentual_gordura, 1000, e1),
          massa_magra |-> round(1000 * peso_kg - peso_kg * percentual_gordura, 1000, e2)]

(***************************************************************************)
(* analisador_perimetros.py                                                *)
(***************************************************************************)
\* NOMES_PERIMETROS in the order of the dict; a name is the sequence of the
\* words that its spaces separate
NOMES_PERIMETROS ==
    << [chave |-> "braco_direito_relaxado",   nome |-> <<"Braço", "Dir.", "(Relaxado)">>],
       [chave |-> "braco_direito_contraido",  nome |-> <<"Braço", "Dir.", "(Contraído)">>],
       [chave |-> "braco_esquerdo_relaxado",  nome |-> <<"Braço", "Esq.", "(Relaxado)">>],
       [chave |-> "braco_esquerdo_contraido", nome |-> <<"Braço", "Esq.", "(Contraído)">>],
       [chave |-> "antebraco_direito",        nome |-> <<"Antebraço", "Direito">>],
       [chave |-> "antebraco_esquerdo",       nome |-> <<"Antebraço", "Esquerdo">>],
       [chave |-> "ombro",                    nome |-> <<"Ombro">>],
       [chave |-> "torax",                    nome |-> <<"Tórax">>],
       [chave |-> "cintura",                  nome |-> <<"Cintura">>],
       [chave |-> "abdomen",                  nome |-> <<"Abdômen">>],
       [chave |-> "quadril",                  nome |-> <<"Quadril">>],
       [chave |-> "coxa_superior_direita",    nome |-> <<"Coxa", "Sup.", "Direita">>],
       [chave |-> "coxa_superior_esquerda",   nome |-> <<"Coxa", "Sup.", "Esquerda">>],
       [chave |-> "coxa_media_direita",       nome |-> <<"Coxa", "Méd.", "Direita">>],
       [chave |-> "coxa_media_esquerda",      nome |-> <<"Coxa", "Méd.", "Esquerda">>],
       [chave |-> "coxa_inferior_direita",    nome |-> <<"Coxa", "Inf.", "Direita">>],
       [chave |-> "coxa_inferior_esquerda",   nome |-> <<"Coxa", "Inf.", "Esquerda">>],
       [chave |-> "panturrilha_direita",      nome |-> <<"Panturrilha", "Direita">>],
       [chave |-> "panturrilha_esquerda",     nome |-> <<"Panturrilha", "Esquerda">>] >>

\* PARES_SIMETRIA: (direito, esquerdo)
PARES_SIMETRIA ==
    << <<"braco_direito_relaxado", "braco_esquerdo_relaxado">>,
       <<"braco_direito_contraido", "braco_esquerdo_contraido">>,
       <<"antebraco_direito", "antebraco_esquerdo">>,
       <<"coxa_superior_direita", "coxa_superior_esquerda">>,
       <<"coxa_media_direita", "coxa_media_esquerda">>,
       <<"coxa_inferior_direita", "coxa_inferior_esquerda">>,
       <<"panturrilha_direita", "panturrilha_esquerda">> >>

\* position of a key in NOMES_PERIMETROS, 0 when it is not a key
IndicePerimetro(chave) ==
    IF \E i \in 1..Len(NOMES_PERIMETROS) : NOMES_PERIMETROS[i].chave = chave
    THEN CHOOSE i \in 1..Len(NOMES_PERIMETROS) : NOMES_PERIMETROS[i].chave = chave
    ELSE 0

\* obter_nome_amigavel: NOMES_PERIMETROS.get(chave_perimetro, chave_perimetro)
obter_nome_amigavel(chave_perimetro) ==
    IF IndicePerimetro(chave_perimetro) # 0
    THEN NOMES_PERIMETROS[IndicePerimetro(chave_perimetro)].nome
    ELSE <<chave_perimetro>>

\* calcular_diferenca_simetria(lado_direito, lado_esquerdo [meios of cm])
\*   -> diferenca_cm and diferenca_percentual in decimos
calcular_diferenca_simetria_sobre_direito(lado_direito, lado_esquerdo, e) ==
    LET diferenca_absoluta == Abs(lado_direito - lado_esquerdo)
    IN  [diferenca_cm |-> round(5 * diferenca_absoluta, 1, 0),
         diferenca_percentual |->
             IF lado_direito > 0
             THEN round(1000 * diferenca_absoluta, lado_direito, e)
             ELSE 0,
         lado_dominante |->
             IF lado_direito > lado_esquerdo THEN "Direito"
             ELSE IF lado_esquerdo > lado_direito THEN "Esquerdo"
             ELSE "Igual"]

calcular_diferenca_simetria(lado_direito, lado_esquerdo, e) ==
    LET diferenca_absoluta == Abs(lado_direito - lado_esquerdo)
    IN  [diferenca_cm |-> round(5 * diferenca_absoluta, 1, 0),
         diferenca_percentual |->
             IF lado_esquerdo > 0
             THEN round(1000 * diferenca_absoluta, lado_esquerdo, e)
             ELSE 0,
         lado_dominante |->
             IF lado_direito > lado_esquerdo THEN "Direito"
             ELSE IF lado_esquerdo > lado_direito THEN "Esquerdo"
             ELSE "Igual"]

\* the entry of one pair: the analysis plus membro, valor_direito, valor_esquerdo
AnalisePar(par, valor_direito, valor_esquerdo, e) ==
    LET analise == calcular_diferenca_simetria(valor_direito, valor_esquerdo, e)
    IN  [diferenca_cm |-> analise.diferenca_cm,
         diferenca_percentual |-> analise.diferenca_percentual,
         lado_dominante |-> analise.lado_dominante,
         membro |-> Head(obter_nome_amigavel(par[1])),
         valor_direito |-> valor_direito,
         valor_esquerdo |-> valor_esquerdo]

\* the loop of analisar_simetria_completa from pair i on
RECURSIVE PercorrerParesUmLado(_, _, _)
PercorrerParesUmLado(perimetros, i, e) ==
    IF i > Len(PARES_SIMETRIA) THEN <<>>
    ELSE LET valor_direito == get(perimetros, PARES_SIMETRIA[i][1])
             valor_esquerdo == get(perimetros, PARES_SIMETRIA[i][2])
             resto == PercorrerParesUmLado(perimetros, i + 1, e)
         IN  IF valor_direito > 0 \/ valor_esquerdo > 0
             THEN <<AnalisePar(PARES_SIMETRIA[i], valor_direito, valor_esquerdo, e)>>
                      \o resto
             ELSE resto

RECURSIVE PercorrerPares(_, _, _)
PercorrerPares(perimetros, i, e) ==
    IF i > Len(PARES_SIMETRIA) THEN <<>>
    ELSE LET valor_direito == get(perimetros, PARES_SIMETRIA[i][1])
             valor_esquerdo == get(perimetros, PARES_SIMETRIA[i][2])
             resto == PercorrerPares(perimetros, i + 1, e)
         IN  IF valor_direito > 0 /\ valor_esquerdo > 0
             THEN <<AnalisePar(PARES_SIMETRIA[i], valor_direito, valor_esquerdo, e)>>
                      \o resto
             ELSE resto

\* analisar_simetria_completa(perimetros [meios of cm]) -> list of entries
analisar_simetria_completa_um_lado(perimetros, e) ==
    PercorrerParesUmLado(perimetros, 1, e)

analisar_simetria_completa(perimetros, e) == PercorrerPares(perimetros, 1, e)

\* the entry for one key with "aumento" for every diferenca >= 0
VariacaoChaveSemIgual(chave, valor_anterior, valor_atual, e) ==
    LET diferenca == valor_atual - valor_anterior
    IN  [nome |-> obter_nome_amigavel(chave),
         anterior |-> valor_anterior,
         atual |-> valor_atual,
         diferenca_cm |-> round(5 * diferenca, 1, 0),
         diferenca_percentual |-> round(1000 * diferenca, valor_anterior, e),
         status |-> IF diferenca >= 0 THEN "aumento" ELSE "reducao"]

\* the entry of calcular_variacao_entre_avaliacoes for one key; diferenca_cm
\* and diferenca_percentual in decimos
VariacaoChave(chave, valor_anterior, valor_atual, e) ==
    LET diferenca == valor_atual - valor_anterior
    IN  [nome |-> obter_nome_amigavel(chave),
         anterior |-> valor_anterior,
         atual |-> valor_atual,
         diferenca_cm |-> round(5 * diferenca, 1, 0),
         diferenca_percentual |-> round(1000 * diferenca, valor_anterior, e),
         status |-> IF diferenca > 0 THEN "aumento"
                    ELSE IF diferenca < 0 THEN "reducao"
                    ELSE "igual"]

\* the loop of calcular_variacao_entre_avaliacoes over NOMES_PERIMETROS.keys()
\* from key i on; the dict variacoes is the function from its keys
RECURSIVE PercorrerChavesSoAnterior(_, _, _, _)
PercorrerChavesSoAnterior(perimetros_anterior, perimetros_atual, i, e) ==
    IF i > Len(NOMES_PERIMETROS) THEN <<>>
    ELSE LET chave == NOMES_PERIMETROS[i].chave
             valor_anterior == get(perimetros_anterior, chave)
             valor_atual == get(perimetros_atual, chave)
             resto == PercorrerChavesSoAnterior(perimetros_anterior, perimetros_atual,
                                                i + 1, e)
         IN  IF valor_anterior > 0
             THEN (chave :> VariacaoChave(chave, valor_anterior, valor_atual, e)) @@ resto
             ELSE resto

RECURSIVE PercorrerChaves(_, _, _, _)
PercorrerChaves(perimetros_anterior, perimetros_atual, i, e) ==
    IF i > Len(NOMES_PERIMETROS) THEN <<>>
    ELSE LET chave == NOMES_PERIMETROS[i].chave
             valor_anterior == get(perimetros_anterior, chave)
             valor_atual == get(perimetros_atual, chave)
             resto == PercorrerChaves(perimetros_anterior, perimetros_atual, i + 1, e)
         IN  IF valor_anterior > 0 /\ valor_atual > 0
             THEN (chave :> VariacaoChave(chave, valor_anterior, valor_atual, e)) @@ resto
             ELSE resto

\* calcular_variacao_entre_avaliacoes(perimetros_anterior, perimetros_atual)
calcular_variacao_entre_avaliacoes_so_anterior(perimetros_anterior, perimetros_atual, e) ==
    PercorrerChavesSoAnterior(perimetros_anterior, perimetros_atual, 1, e)

calcular_variacao_entre_avaliacoes(perimetros_anterior, perimetros_atual, e) ==
    PercorrerChaves(perimetros_anterior, perimetros_atual, 1, e)

MEDIDAS_RADAR ==
    << "ombro", "torax", "braco_direito_contraido", "antebraco_direito",
       "cintura", "abdomen", "quadril", "coxa_superior_direita",
       "coxa_media_direita", "panturrilha_direita" >>

\* the loop of preparar_dados_grafico_radar with missing keys skipped
RECURSIVE PercorrerRadarMedidos(_, _)
PercorrerRadarMedidos(perimetros, i) ==
    IF i > Len(MEDIDAS_RADAR) THEN [categorias |-> <<>>, valores |-> <<>>]
    ELSE LET chave == MEDIDAS_RADAR[i]
             resto == PercorrerRadarMedidos(perimetros, i + 1)
         IN  IF chave \in DOMAIN perimetros
             THEN [categorias |-> <<obter_nome_amigavel(chave)>> \o resto.categorias,
                   valores |-> <<perimetros[chave]>> \o resto.valores]
             ELSE resto

preparar_dados_grafico_radar_medidos(perimetros) ==
    PercorrerRadarMedidos(perimetros, 1)

\* for chave in MEDIDAS_RADAR: categorias.append(nome); valores.append(valor)
RECURSIVE PercorrerRadar(_, _)
PercorrerRadar(perimetros, i) ==
    IF i > Len(MEDIDAS_RADAR) THEN [categorias |-> <<>>, valores |-> <<>>]
    ELSE LET chave == MEDIDAS_RADAR[i]
             nome == obter_nome_amigavel(chave)
             valor == get(perimetros, chave)
             resto == PercorrerRadar(perimetros, i + 1)
         IN  [categorias |-> <<nome>> \o resto.categorias,
              valores |-> <<valor>> \o resto.valores]

preparar_dados_grafico_radar(perimetros) == PercorrerRadar(perimetros, 1)

\* for chave in MEDIDAS_RADAR: the name and the value of each of the two mappings
RECURSIVE PercorrerRadarComparacao(_, _, _)
PercorrerRadarComparacao(perimetros_anterior, perimetros_atual, i) ==
    IF i > Len(MEDIDAS_RADAR)
    THEN [categorias |-> <<>>, valores_anterior |-> <<>>, valores_atual |-> <<>>]
    ELSE LET chave == MEDIDAS_RADAR[i]
             nome == obter_nome_amigavel(chave)
             resto == PercorrerRadarComparacao(perimetros_anterior, perimetros_atual, i + 1)
         IN  [categorias |-> <<nome>> \o resto.categorias,
              valores_anterior |->
                  <<get(perimetros_anterior, chave)>> \o resto.valores_anterior,
              valores_atual |->
                  <<get(perimetros_atual, chave)>> \o resto.valores_atual]

preparar_comparacao_radar(perimetros_anterior, perimetros_atual) ==
    PercorrerRadarComparacao(perimetros_anterior, perimetros_atual, 1)

\* Optional[float]: a sequence of at most one number
None == <<>>

Algum(valor) == <<valor>>

\* perimetros in meios of cm, the ratio in centesimos
calcular_relacao_cintura_quadril(perimetros, e) ==
    LET cintura == get(perimetros, "cintura")
        quadril == get(perimetros, "quadril")
    IN  IF cintura <= 0 \/ quadril <= 0 THEN None
        ELSE Algum(round(100 * cintura, quadril, e))

\* classificar_rcq comparing the gender without lower()
classificar_rcq_sem_lower(rcq, genero) ==
    IF rcq = None THEN "Não calculado"
    ELSE IF genero = "Masculino"
         THEN IF rcq[1] < 90 THEN "Baixo risco"
              ELSE IF rcq[1] < 100 THEN "Risco moderado"
              ELSE "Alto risco"
         ELSE IF rcq[1] < 80 THEN "Baixo risco"
              ELSE IF rcq[1] < 85 THEN "Risco moderado"
              ELSE "Alto risco"

\* rcq in centesimos
classificar_rcq(rcq, genero) ==
    IF rcq = None THEN "Não calculado"
    ELSE IF lower(genero) = "masculino"
         THEN IF rcq[1] < 90 THEN "Baixo risco"
              ELSE IF rcq[1] < 100 THEN "Risco moderado"
              ELSE "Alto risco"
         ELSE IF rcq[1] < 80 THEN "Baixo risco"
              ELSE IF rcq[1] < 85 THEN "Risco moderado"
              ELSE "Alto risco"

(***************************************************************************)
(* calculadora_corporal.py over the range of binary64: a float is          *)
(* [sinal, x], standing for sinal * 10^x.  Products, sums and quotients by *)
(* a nonzero float never raise (they overflow to inf); x ** 2 raises       *)
(* OverflowError above the range, rounds to 0.0 below it; a quotient by    *)
(* 0.0 raises ZeroDivisionError.                                           *)
(***************************************************************************)
FZero == [sinal |-> 0, x |-> 0]

\* the binary64 nearest to sinal * 10^x, within the range: 0.0 below the
\* subnormals
Binary64(sinal, x) ==
    IF sinal = 0 \/ x < -323 THEN FZero ELSE [sinal |-> sinal, x |-> x]

\* v / 100
DividirPorCem(v) == Binary64(v.sinal, v.x - 2)

\* v ** 2 is above the largest binary64
TransbordaAoQuadrado(v) == v.sinal # 0 /\ 2 * v.x > 308

\* v ** 2, when it does not overflow
AoQuadrado(v) == Binary64(v.sinal * v.sinal, 2 * v.x)

Retorna(qual) == [excecao |-> "nenhuma", retorno |-> qual]

Levanta(excecao) == [excecao |-> excecao, retorno |-> "nenhum"]

calcular_imc_binary64(peso_kg, altura_cm) ==
    IF peso_kg.sinal <= 0 \/ altura_cm.sinal <= 0 THEN Retorna("zero")
    ELSE LET altura_metros == DividirPorCem(altura_cm)
         IN  IF TransbordaAoQuadrado(altura_metros) THEN Levanta("OverflowError")
             ELSE IF AoQuadrado(altura_metros) = FZero
                  THEN Levanta("ZeroDivisionError")
                  ELSE Retorna("calculado")

calcular_tmb_binary64(peso_kg, altura_cm, idade) ==
    IF peso_kg.sinal <= 0 \/ altura_cm.sinal <= 0 \/ idade <= 0 THEN Retorna("zero")
    ELSE Retorna("calculado")

calcular_gasto_calorico_diario_binary64(tmb) ==
    IF tmb.sinal <= 0 THEN Retorna("zero") ELSE Retorna("calculado")

calcular_peso_ideal_binary64(altura_cm) ==
    IF altura_cm.sinal <= 0 THEN Retorna("zero")
    ELSE LET altura_metros == DividirPorCem(altura_cm)
         IN  IF TransbordaAoQuadrado(altura_metros) THEN Levanta("OverflowError")
             ELSE Retorna("calculado")

calcular_densidade_corporal_pollock7_binary64(soma_dobras, idade) ==
    IF soma_dobras.sinal <= 0 \/ idade <= 0 THEN Retorna("zero")
    ELSE IF TransbordaAoQuadrado(soma_dobras) THEN Levanta("OverflowError")
         ELSE Retorna("calculado")

calcular_percentual_gordura_binary64(densidade_corporal) ==
    IF densidade_corporal.sinal <= 0 THEN Retorna("zero") ELSE Retorna("calculado")

calcular_massas_corporais_binary64(peso_kg, percentual_gordura) ==
    IF peso_kg.sinal <= 0 \/ percentual_gordura.sinal < 0 THEN Retorna("zero")
    ELSE Retorna("calculado")

(***************************************************************************)
(* dados/gerenciador_avaliacoes.py                                         *)
(* A JSON text of a mapping is the sequence of its [chave, valor] members. *)
(***************************************************************************)
\* json.dumps(perimetros): the members in the order of the registry
RECURSIVE json_dumps(_, _)
json_dumps(perimetros, i) ==
    IF i > Len(NOMES_PERIMETROS) THEN <<>>
    ELSE LET chave == NOMES_PERIMETROS[i].chave
         IN  (IF chave \in DOMAIN perimetros
              THEN <<[chave |-> chave, valor |-> perimetros[chave]]>>
              ELSE <<>>) \o json_dumps(perimetros, i + 1)

\* json.loads(perimetros_json)
json_loads(texto) ==
    [k \in {texto[i].chave : i \in 1..Len(texto)} |->
        texto[CHOOSE i \in 1..Len(texto) : texto[i].chave = k].valor]

\* the row _adicionar_avaliacao_sheets appends, by column header
LinhaDaAvaliacao(cliente_id, avaliacao) ==
    [id |-> avaliacao.id,
     cliente_id |-> cliente_id,
     data |-> avaliacao.data,
     peso_kg |-> avaliacao.peso_kg,
     altura_cm |-> avaliacao.altura_cm,
     nivel_atividade |-> avaliacao.nivel_atividade,
     perimetros_json |-> json_dumps(avaliacao.perimetros, 1)]

\* the evaluation _carregar_avaliacoes_sheets builds from a row
AvaliacaoDaLinha(registro) ==
    [id |-> registro.id,
     data |-> registro.data,
     peso_kg |-> registro.peso_kg,
     altura_cm |-> registro.altura_cm,
     nivel_atividade |-> registro.nivel_atividade,
     perimetros |-> json_loads(registro.perimetros_json)]

RECURSIVE CarregarLinhas(_, _, _)
CarregarLinhas(registros, cliente_id, i) ==
    IF i > Len(registros) THEN <<>>
    ELSE (IF registros[i].cliente_id = cliente_id
          THEN <<AvaliacaoDaLinha(registros[i])>>
          ELSE <<>>) \o CarregarLinhas(registros, cliente_id, i + 1)

\* falha: obter_aba_avaliacoes() or get_all_records() fails
carregar_avaliacoes_sheets(registros, cliente_id, falha) ==
    IF falha THEN <<>> ELSE CarregarLinhas(registros, cliente_id, 1)

\* "YYYY-MM-DD" < "YYYY-MM-DD", on the sequences of the three fields
DataMenor(a, b) ==
    \/ a[1] < b[1]
    \/ a[1] = b[1] /\ TuplaMenor(<<a[2], a[3]>>, <<b[2], b[3]>>)

\* a goes after the elements of the sorted sequence that are not after it
InserirPorData(ordenadas, a) ==
    LET k == Cardinality({i \in 1..Len(ordenadas) :
                             ~DataMenor(a.data, ordenadas[i].data)})
    IN  SubSeq(ordenadas, 1, k) \o <<a>> \o SubSeq(ordenadas, k + 1, Len(ordenadas))

RECURSIVE OrdenarAte(_, _)
OrdenarAte(avaliacoes, n) ==
    IF n = 0 THEN <<>>
    ELSE InserirPorData(OrdenarAte(avaliacoes, n - 1), avaliacoes[n])

\* sorted(avaliacoes, key=lambda a: a.get("data", "")): a stable sort
sorted(avaliacoes) == OrdenarAte(avaliacoes, Len(avaliacoes))

\* obter_historico_avaliacoes leaving the evaluations in the order stored
obter_historico_avaliacoes_sem_ordem(cliente_id, falha) ==
    IF conexao
    THEN carregar_avaliacoes_sheets(planilha, cliente_id, falha)
    ELSE IF cliente_id \notin DOMAIN arquivo THEN <<>>
         ELSE arquivo[cliente_id]

\* the history as the two stores and the connection give it
obter_historico_avaliacoes(cliente_id, falha) ==
    IF conexao
    THEN sorted(carregar_avaliacoes_sheets(planilha, cliente_id, falha))
    ELSE IF cliente_id \notin DOMAIN arquivo THEN <<>>
         ELSE sorted(arquivo[cliente_id])

\* historico[-1], or None
obter_ultima_avaliacao(cliente_id, falha) ==
    LET historico == obter_historico_avaliacoes(cliente_id, falha)
    IN  IF historico = <<>> THEN None ELSE Algum(historico[Len(historico)])

\* historico[0], or None
obter_primeira_avaliacao(cliente_id, falha) ==
    LET historico == obter_historico_avaliacoes(cliente_id, falha)
    IN  IF historico = <<>> THEN None ELSE Algum(historico[1])

\* the first evaluation of the history with the given date, or None
PrimeiraComData(historico, data) ==
    LET com_data == {i \in 1..Len(historico) : historico[i].data = data}
    IN  IF com_data = {} THEN None
        ELSE Algum(historico[CHOOSE i \in com_data : \A j \in com_data : i <= j])

obter_avaliacao_por_data(cliente_id, data, falha) ==
    PrimeiraComData(obter_historico_avaliacoes(cliente_id, falha), data)

\* the dates of the history, one per evaluation
listar_datas_avaliacoes(cliente_id, falha) ==
    LET historico == obter_historico_avaliacoes(cliente_id, falha)
    IN  [i \in 1..Len(historico) |-> historico[i].data]

(***************************************************************************)
(* Input domains.                                                          *)
(***************************************************************************)
Pesos == {-7, 0, 700} \cup {200 + 31 * k : k \in 0..MaxPesos}

Alturas == {-3, 0} \cup {200 + 3 * k : k \in 0..MaxAlturas}

ValoresImc == -2..MaxImc

Idades == {-1, 0} \cup {15 * k : k \in 1..MaxIdades}

Generos == {"Masculino", "Feminino", "masculino", "MASCULINO", "FEMININO", "Outro"}

ValoresTmb == {-3, 0} \cup {16700 + k : k \in 0..MaxTmbs}

NiveisAtividade == DOMAIN FATORES_ATIVIDADE \cup {"Sedentary", "sedentário", ""}

Densidades ==
    {-100000, -1, 0, 1, 50000, 1000000, 100000000, 2000000000}
        \cup {96500 + k : k \in 0..MaxDensidades}

Percentuais == -3..MaxPercentual

\* the keys a skinfold mapping may carry: the 7 sites and one other key
ChavesDobras == {CHAVES_DOBRAS[i] : i \in 1..Len(CHAVES_DOBRAS)} \cup {"biceps"}

\* a different offset for each key, meios of mm
DeslocamentoDobra(chave) ==
    CASE chave = "peitoral"     -> 1
      [] chave = "axilar_media" -> 2
      [] chave = "triceps"      -> 3
      [] chave = "subescapular" -> 4
      [] chave = "abdominal"    -> 5
      [] chave = "suprailiaca"  -> 6
      [] chave = "coxa"         -> 7
      [] OTHER                  -> 9

BasesDobra == {-20, 0} \cup {10 * k : k \in 1..MaxBases}

\* skinfold mappings: every key but at most MaxAusentes, or no key at all
MapasDobras ==
    { [k \in ks |-> IF b = 0 THEN 0 ELSE b + DeslocamentoDobra(k)] :
        ks \in {ChavesDobras \ a : a \in {x \in SUBSET ChavesDobras :
                                             Cardinality(x) <= MaxAusentes}} \cup {{}},
        b \in BasesDobra }

(***************************************************************************)
(* The calls.                                                              *)
(***************************************************************************)
\* no evaluation loaded yet
SessaoVazia ==
    [perimetros_anterior |-> <<>>, perimetros |-> <<>>, dobras_cutaneas |-> <<>>]

Init ==
    /\ op = "inicio"
    /\ args = <<>>
    /\ res = <<>>
    /\ hoje = [year |-> 2024, month |-> 1, day |-> 1]
    /\ idade_lembrada = [lembrada |-> FALSE, data_nascimento |-> <<>>, idade |-> 0]
    /\ sessao = SessaoVazia
    /\ planilha = <<>>
    /\ arquivo = [c \in {"c1"} |-> <<>>]
    /\ conexao = TRUE
    /\ salvas = {}

ChamarCalcularImc ==
    /\ op = "inicio"
    /\ UNCHANGED ambiente
    /\ \E p \in Pesos, h \in Alturas, e \in ErrosBinarios :
          /\ op' = "calcular_imc"
          /\ args' = [peso_kg |-> p, altura_cm |-> h, e |-> e]
          /\ res' = calcular_imc(p, h, e)

ChamarClassificarImc ==
    /\ op = "inicio"
    /\ UNCHANGED ambiente
    /\ \E imc \in ValoresImc :
          /\ op' = "classificar_imc"
          /\ args' = [imc |-> imc]
          /\ res' = classificar_imc(imc)

\* the caller takes the result; the next call can be made
Concluir ==
    /\ op # "inicio"
    /\ op' = "inicio"
    /\ args' = <<>>
    /\ res' = <<>>
    /\ UNCHANGED ambiente

ChamarCalcularTmb ==
    /\ op = "inicio"
    /\ UNCHANGED ambiente
    /\ \E p \in Pesos, h \in Alturas, i \in Idades, g \in Generos :
          /\ op' = "calcular_tmb"
          /\ args' = [peso_kg |-> p, altura_cm |-> h, idade |-> i, genero |-> g]
          /\ res' = calcular_tmb(p, h, i, g)

ChamarCalcularGastoCaloricoDiario ==
    /\ op = "inicio"
    /\ UNCHANGED ambiente
    /\ \E t \in ValoresTmb, n \in NiveisAtividade, e \in ErrosBinarios :
          /\ op' = "calcular_gasto_calorico_diario"
          /\ args' = [tmb |-> t, nivel_atividade |-> n, e |-> e]
          /\ res' = calcular_gasto_calorico_diario(t, n, e)

Lados == -4..MaxLado

ChavesPerimetros == {NOMES_PERIMETROS[i].chave : i \in 1..Len(NOMES_PERIMETROS)}

\* a measured value for each key, meios of cm: 31.0 cm to 49.0 cm, no two
\* keys alike, and no percent difference between them a decimal tie
PerimetroDe(chave) == 60 + 2 * ((7 * IndicePerimetro(chave)) % 19)

\* the sets of at most n keys
RECURSIVE AteNChaves(_)
AteNChaves(n) ==
    IF n = 0 THEN {{}}
    ELSE LET menores == AteNChaves(n - 1)
         IN  menores \cup {m \cup {k} : m \in menores, k \in ChavesPerimetros}

\* circumference mappings: every key measured except at most MaxDesvios keys
\* that are missing, 0 or negative; or at most MaxDesvios keys measured and
\* no other key
MapasPerimetros ==
    UNION { { [k \in ChavesPerimetros \ {x \in ds : t[x] = "ausente"} |->
                 IF k \notin ds THEN PerimetroDe(k)
                 ELSE IF t[k] = "zero" THEN 0
                 ELSE -PerimetroDe(k)] :
              t \in [ds -> {"ausente", "zero", "negativo"}] } :
            ds \in AteNChaves(MaxDesvios) }
        \cup { [k \in ds |-> PerimetroDe(k)] : ds \in AteNChaves(MaxDesvios) }

ChamarCalcularDiferencaSimetria ==
    /\ op = "inicio"
    /\ UNCHANGED ambiente
    /\ \E d \in Lados, q \in Lados, e \in ErrosBinarios :
          /\ op' = "calcular_diferenca_simetria"
          /\ args' = [lado_direito |-> d, lado_esquerdo |-> q, e |-> e]
          /\ res' = calcular_diferenca_simetria(d, q, e)

ChamarAnalisarSimetriaCompleta ==
    /\ op = "inicio"
    /\ UNCHANGED ambiente
    /\ \E pm \in MapasPerimetros :
          /\ op' = "analisar_simetria_completa"
          /\ args' = [perimetros |-> pm]
          /\ res' = analisar_simetria_completa(pm, 0)

\* the keys a stored circumference mapping may carry: the registered ones
\* and one that is not registered
ChavesMapa == ChavesPerimetros \cup {"pescoco"}

\* the change of a key between two evaluations, meios of cm: -1.5, 0 or 1.5
DeltaDe(chave) == 3 * ((IndicePerimetro(chave) % 3) - 1)

TiposDesvio ==
    {"ausente_anterior", "zero_anterior", "ausente_atual", "zero_atual",
     "negativo_atual"}

\* the two mappings in which the keys ds depart, as t says, from "measured in
\* both evaluations"
ParDeMapas(ds, t) ==
    << [k \in ChavesMapa \ {x \in ds : t[x] = "ausente_anterior"} |->
           IF k \in ds /\ t[k] = "zero_anterior" THEN 0 ELSE PerimetroDe(k)],
       [k \in ChavesMapa \ {x \in ds : t[x] = "ausente_atual"} |->
           IF k \in ds /\ t[k] = "zero_atual" THEN 0
           ELSE IF k \in ds /\ t[k] = "negativo_atual" THEN -PerimetroDe(k)
           ELSE PerimetroDe(k) + DeltaDe(k)] >>

\* the two mappings in which only the keys ds are measured, in both
ParDeMapasSo(ds) ==
    << [k \in ds |-> PerimetroDe(k)], [k \in ds |-> PerimetroDe(k) + DeltaDe(k)] >>

\* the pairs of circumference mappings (anterior, atual) for the keys ds:
\* every key measured in both except ds, or only ds measured
ParesDeMapas(ds) ==
    {ParDeMapas(ds, t) : t \in [ds -> TiposDesvio]} \cup {ParDeMapasSo(ds)}

ChamarCalcularVariacaoEntreAvaliacoes ==
    /\ op = "inicio"
    /\ UNCHANGED ambiente
    /\ \E ds \in AteNChaves(MaxDesviosPar) :
       \E par \in ParesDeMapas(ds), e \in ErrosBinarios :
          /\ op' = "calcular_variacao_entre_avaliacoes"
          /\ args' = [perimetros_anterior |-> par[1], perimetros_atual |-> par[2],
                      e |-> e]
          /\ res' = calcular_variacao_entre_avaliacoes(par[1], par[2], e)

ChamarCalcularPercentualGordura ==
    /\ op = "inicio"
    /\ UNCHANGED ambiente
    /\ \E d \in Densidades, e \in ErrosBinarios :
          /\ op' = "calcular_percentual_gordura"
          /\ args' = [densidade_corporal |-> d, e |-> e]
          /\ res' = calcular_percentual_gordura(d, e)

ChamarClassificarPercentualGordura ==
    /\ op = "inicio"
    /\ UNCHANGED ambiente
    /\ \E pg \in Percentuais, g \in Generos :
          /\ op' = "classificar_percentual_gordura"
          /\ args' = [percentual |-> pg, genero |-> g]
          /\ res' = classificar_percentual_gordura(pg, g)

ChamarCalcularGorduraPollock7 ==
    /\ op = "inicio"
    /\ UNCHANGED ambiente
    /\ \E d \in MapasDobras, i \in Idades, g \in Generos,
          e1 \in ErrosBinarios, e2 \in ErrosBinarios :
          /\ op' = "calcular_gordura_pollock7"
          /\ args' = [dobras |-> d, idade |-> i, genero |-> g, e1 |-> e1, e2 |-> e2]
          /\ res' = calcular_gordura_pollock7(d, i, g, e1, e2)

ChamarPrepararDadosGraficoRadar ==
    /\ op = "inicio"
    /\ UNCHANGED ambiente
    /\ \E perimetros \in MapasPerimetros :
          /\ op' = "preparar_dados_grafico_radar"
          /\ args' = [perimetros |-> perimetros]
          /\ res' = preparar_dados_grafico_radar(perimetros)

ChamarPrepararComparacaoRadar ==
    /\ op = "inicio"
    /\ UNCHANGED ambiente
    /\ \E ds \in AteNChaves(MaxDesviosPar) :
       \E par \in ParesDeMapas(ds) :
          /\ op' = "preparar_comparacao_radar"
          /\ args' = [perimetros_anterior |-> par[1], perimetros_atual |-> par[2]]
          /\ res' = preparar_comparacao_radar(par[1], par[2])

\* days of the year that dates are drawn from
MesesDias == {<<1, 1>>, <<2, 28>>, <<2, 29>>, <<3, 1>>, <<6, 15>>, <<12, 31>>}

Bissexto(ano) == ano % 4 = 0 /\ (ano % 100 # 0 \/ ano % 400 = 0)

DataValida(ano, md) == md = <<2, 29>> => Bissexto(ano)

\* dates the system clock can show
DatasHoje ==
    {[year |-> amd[1], month |-> amd[2][1], day |-> amd[2][2]] :
        amd \in {x \in (2024..(2023 + MaxAnosHoje)) \X MesesDias :
                    DataValida(x[1], x[2])}}

\* birth dates stored for a client: a date of the date picker, or none
DatasNascimento ==
    {<<>>} \cup
        {<<amd[1], amd[2][1], amd[2][2]>> :
            amd \in {x \in ((2001 - MaxAnosNascimento)..2000) \X MesesDias :
                        DataValida(x[1], x[2])}}

Posterior(d1, d2) ==
    \/ d1.year > d2.year
    \/ d1.year = d2.year /\ TuplaMenor(<<d2.month, d2.day>>, <<d1.month, d1.day>>)

\* the system clock moves on between two calls
PassarDias ==
    /\ op = "inicio"
    /\ \E d \in DatasHoje :
          /\ Posterior(d, hoje)
          /\ hoje' = d
    /\ UNCHANGED <<op, args, res, idade_lembrada, sessao, armazenamento>>

\* a page computes the age of a client; it may keep the age it obtained
ChamarCalcularIdade ==
    /\ op = "inicio"
    /\ \E d \in DatasNascimento, lembrar \in BOOLEAN :
          /\ op' = "calcular_idade"
          /\ args' = [data_nascimento |-> d]
          /\ res' = calcular_idade(d)
          /\ idade_lembrada' =
                IF lembrar
                THEN [lembrada |-> TRUE, data_nascimento |-> d,
                      idade |-> calcular_idade(d)]
                ELSE idade_lembrada
    /\ UNCHANGED <<hoje, sessao, armazenamento>>

\* skinfold mappings of a loaded evaluation: none measured, all measured,
\* or all but the first key
DobrasDaSessao ==
    { [k \in ks |-> 20 + DeslocamentoDobra(k)] :
        ks \in {{}, ChavesDobras, ChavesDobras \ {"peitoral"}} }

\* a page loads two evaluations of a client, once
CarregarSessao ==
    /\ op = "inicio"
    /\ sessao = SessaoVazia
    /\ \E ds \in AteNChaves(MaxDesviosPar) :
       \E par \in ParesDeMapas(ds), d \in DobrasDaSessao :
          sessao' = [perimetros_anterior |-> par[1], perimetros |-> par[2],
                     dobras_cutaneas |-> d]
    /\ UNCHANGED <<op, args, res, relogio, armazenamento>>

\* the calls below pass the mappings of the loaded evaluations; the functions
\* read them with .get() and subscripts and assign to no key of them
SomarDobrasDaSessao ==
    /\ op = "inicio"
    /\ op' = "calcular_soma_7_dobras"
    /\ args' = [dobras |-> sessao.dobras_cutaneas]
    /\ res' = calcular_soma_7_dobras(sessao.dobras_cutaneas)
    /\ UNCHANGED ambiente

EstimarGorduraDaSessao ==
    /\ op = "inicio"
    /\ \E g \in {"Masculino", "Feminino"} :
          /\ op' = "calcular_gordura_pollock7"
          /\ args' = [dobras |-> sessao.dobras_cutaneas, idade |-> 30, genero |-> g,
                      e1 |-> 0, e2 |-> 0]
          /\ res' = calcular_gordura_pollock7(sessao.dobras_cutaneas, 30, g, 0, 0)
    /\ UNCHANGED ambiente

\* analisar_simetria_completa writing the sides it reads back into perimetros
AnalisarSimetriaDaSessaoPreenchendo ==
    /\ op = "inicio"
    /\ op' = "analisar_simetria_completa"
    /\ args' = [perimetros |-> sessao.perimetros]
    /\ res' = analisar_simetria_completa(sessao.perimetros, 0)
    /\ sessao' = [sessao EXCEPT !.perimetros =
                     [k \in ChavesMapa |-> get(sessao.perimetros, k)]]
    /\ UNCHANGED <<relogio, armazenamento>>

AnalisarSimetriaDaSessao ==
    /\ op = "inicio"
    /\ op' = "analisar_simetria_completa"
    /\ args' = [perimetros |-> sessao.perimetros]
    /\ res' = analisar_simetria_completa(sessao.perimetros, 0)
    /\ UNCHANGED ambiente

CompararSessoes ==
    /\ op = "inicio"
    /\ op' = "calcular_variacao_entre_avaliacoes"
    /\ args' = [perimetros_anterior |-> sessao.perimetros_anterior,
                perimetros_atual |-> sessao.perimetros, e |-> 0]
    /\ res' = calcular_variacao_entre_avaliacoes(sessao.perimetros_anterior,
                                                 sessao.perimetros, 0)
    /\ UNCHANGED ambiente

ProjetarRadarDaSessao ==
    /\ op = "inicio"
    /\ op' = "preparar_dados_grafico_radar"
    /\ args' = [perimetros |-> sessao.perimetros]
    /\ res' = preparar_dados_grafico_radar(sessao.perimetros)
    /\ UNCHANGED ambiente

CompararRadarDasSessoes ==
    /\ op = "inicio"
    /\ op' = "preparar_comparacao_radar"
    /\ args' = [perimetros_anterior |-> sessao.perimetros_anterior,
                perimetros_atual |-> sessao.perimetros]
    /\ res' = preparar_comparacao_radar(sessao.perimetros_anterior, sessao.perimetros)
    /\ UNCHANGED ambiente

CalcularRcqDaSessao ==
    /\ op = "inicio"
    /\ op' = "calcular_relacao_cintura_quadril"
    /\ args' = [perimetros |-> sessao.perimetros, e |-> 0]
    /\ res' = calcular_relacao_cintura_quadril(sessao.perimetros, 0)
    /\ UNCHANGED ambiente

SomasDobras == {-5, 0} \cup {20 * k : k \in 1..MaxSomas}

ChamarCalcularDensidadeCorporalPollock7 ==
    /\ op = "inicio"
    /\ UNCHANGED ambiente
    /\ \E sd \in SomasDobras, i \in Idades, g \in Generos, e \in ErrosBinarios :
          /\ op' = "calcular_densidade_corporal_pollock7"
          /\ args' = [soma_dobras |-> sd, idade |-> i, genero |-> g, e |-> e]
          /\ res' = calcular_densidade_corporal_pollock7(sd, i, g, e)

Cinturas == {-2, 0} \cup {140 + k : k \in 0..MaxCinturas}

Quadris == {0, 180, 200}

\* circumference mappings with or without a waist and a hip
MapasCinturaQuadril ==
    UNION { { [k \in ks |-> IF k = "cintura" THEN c ELSE q] :
              c \in Cinturas, q \in Quadris } :
            ks \in SUBSET {"cintura", "quadril"} }

ChamarCalcularRelacaoCinturaQuadril ==
    /\ op = "inicio"
    /\ UNCHANGED ambiente
    /\ \E pm \in MapasCinturaQuadril, e \in ErrosBinarios :
          /\ op' = "calcular_relacao_cintura_quadril"
          /\ args' = [perimetros |-> pm, e |-> e]
          /\ res' = calcular_relacao_cintura_quadril(pm, e)

ValoresRcq == {None} \cup {Algum(70 + k) : k \in 0..MaxRcq}

ChamarClassificarRcq ==
    /\ op = "inicio"
    /\ UNCHANGED ambiente
    /\ \E rcq \in ValoresRcq, g \in Generos :
          /\ op' = "classificar_rcq"
          /\ args' = [rcq |-> rcq, genero |-> g]
          /\ res' = classificar_rcq(rcq, g)

Expoentes ==
    {x \in {20 * k : k \in (-MaxExpoentes)..MaxExpoentes} : x >= -323 /\ x <= 308}

\* finite floats: 0.0 and plus or minus 10^x
Flutuantes == {FZero} \cup {[sinal |-> s, x |-> x] : s \in {-1, 1}, x \in Expoentes}

ChamarCalcularImcBinary64 ==
    /\ op = "inicio"
    /\ UNCHANGED ambiente
    /\ \E p \in Flutuantes, h \in Flutuantes :
          /\ op' = "calcular_imc(binary64)"
          /\ args' = [peso_kg |-> p, altura_cm |-> h]
          /\ res' = calcular_imc_binary64(p, h)

ChamarCalcularTmbBinary64 ==
    /\ op = "inicio"
    /\ UNCHANGED ambiente
    /\ \E p \in Flutuantes, h \in Flutuantes, i \in {-1, 0, 30} :
          /\ op' = "calcular_tmb(binary64)"
          /\ args' = [peso_kg |-> p, altura_cm |-> h, idade |-> i]
          /\ res' = calcular_tmb_binary64(p, h, i)

ChamarCalcularGastoCaloricoDiarioBinary64 ==
    /\ op = "inicio"
    /\ UNCHANGED ambiente
    /\ \E t \in Flutuantes :
          /\ op' = "calcular_gasto_calorico_diario(binary64)"
          /\ args' = [tmb |-> t]
          /\ res' = calcular_gasto_calorico_diario_binary64(t)

ChamarCalcularPesoIdealBinary64 ==
    /\ op = "inicio"
    /\ UNCHANGED ambiente
    /\ \E h \in Flutuantes :
          /\ op' = "calcular_peso_ideal(binary64)"
          /\ args' = [altura_cm |-> h]
          /\ res' = calcular_peso_ideal_binary64(h)

ChamarCalcularDensidadeCorporalPollock7Binary64 ==
    /\ op = "inicio"
    /\ UNCHANGED ambiente
    /\ \E sd \in Flutuantes, i \in {-1, 0, 30} :
          /\ op' = "calcular_densidade_corporal_pollock7(binary64)"
          /\ args' = [soma_dobras |-> sd, idade |-> i]
          /\ res' = calcular_densidade_corporal_pollock7_binary64(sd, i)

ChamarCalcularPercentualGorduraBinary64 ==
    /\ op = "inicio"
    /\ UNCHANGED ambiente
    /\ \E dc \in Flutuantes :
          /\ op' = "calcular_percentual_gordura(binary64)"
          /\ args' = [densidade_corporal |-> dc]
          /\ res' = calcular_percentual_gordura_binary64(dc)

ChamarCalcularMassasCorporaisBinary64 ==
    /\ op = "inicio"
    /\ UNCHANGED ambiente
    /\ \E p \in Flutuantes, pg \in Flutuantes :
          /\ op' = "calcular_massas_corporais(binary64)"
          /\ args' = [peso_kg |-> p, percentual_gordura |-> pg]
          /\ res' = calcular_massas_corporais_binary64(p, pg)

Clientes == {"c1", "c2"}

\* the ids in the clients worksheet: client c1 is registered there as it is
\* in the local file, client c2 in neither
aba_clientes == {"c1"}

\* what the evaluation form submits: peso_kg and altura_cm > 0, the 19
\* circumferences and the 7 skinfolds
Formularios ==
    { [data |-> dt, peso_kg |-> 700, altura_cm |-> 340,
       nivel_atividade |-> "Sedentário",
       perimetros |-> [k \in ChavesPerimetros |-> PerimetroDe(k)],
       dobras_cutaneas |-> [k \in ChavesDobras |-> db]] :
        dt \in {<<2024, 1, 1>>, <<2024, 6, 15>>}, db \in {0, 25} }

\* evaluations in the two stores
TotalAvaliacoes ==
    Len(planilha)
        + Cardinality({ci \in (DOMAIN arquivo) \X (1..MaxAvaliacoes) :
                          ci[2] <= Len(arquivo[ci[1]])})

\* verificar_conexao() changes its answer between two calls
MudarConexao ==
    /\ op = "inicio"
    /\ conexao' = ~conexao
    /\ UNCHANGED <<op, args, res, relogio, sessao, planilha, arquivo, salvas>>

\* falha: obter_aba_avaliacoes() or append_row() fails
ChamarAdicionarAvaliacao ==
    /\ op = "inicio"
    /\ TotalAvaliacoes < MaxAvaliacoes
    /\ \E c \in Clientes, f \in Formularios, falha \in BOOLEAN :
          LET avaliacao == ("id" :> TotalAvaliacoes + 1) @@ f
              gravou == IF conexao THEN ~falha ELSE c \in DOMAIN arquivo
          IN  /\ conexao \/ ~falha
              /\ op' = "adicionar_avaliacao"
              /\ args' = [cliente_id |-> c, avaliacao |-> avaliacao]
              /\ res' = gravou
              /\ planilha' = IF conexao /\ gravou
                             THEN Append(planilha, LinhaDaAvaliacao(c, avaliacao))
                             ELSE planilha
              /\ arquivo' = IF ~conexao /\ gravou
                            THEN [arquivo EXCEPT ![c] = Append(@, avaliacao)]
                            ELSE arquivo
              /\ salvas' = IF gravou
                           THEN salvas \cup {[cliente_id |-> c, avaliacao |-> avaliacao]}
                           ELSE salvas
    /\ UNCHANGED <<relogio, sessao, conexao>>

ChamarObterHistoricoAvaliacoes ==
    /\ op = "inicio"
    /\ \E c \in Clientes, falha \in BOOLEAN :
          /\ conexao \/ ~falha
          /\ op' = "obter_historico_avaliacoes"
          /\ args' = [cliente_id |-> c, falha |-> falha]
          /\ res' = obter_historico_avaliacoes(c, falha)
    /\ UNCHANGED ambiente

ChamarObterUltimaAvaliacao ==
    /\ op = "inicio"
    /\ \E c \in Clientes, falha \in BOOLEAN :
          /\ conexao \/ ~falha
          /\ op' = "obter_ultima_avaliacao"
          /\ args' = [cliente_id |-> c, falha |-> falha]
          /\ res' = obter_ultima_avaliacao(c, falha)
    /\ UNCHANGED ambiente

ChamarObterPrimeiraAvaliacao ==
    /\ op = "inicio"
    /\ \E c \in Clientes, falha \in BOOLEAN :
          /\ conexao \/ ~falha
          /\ op' = "obter_primeira_avaliacao"
          /\ args' = [cliente_id |-> c, falha |-> falha]
          /\ res' = obter_primeira_avaliacao(c, falha)
    /\ UNCHANGED ambiente

\* the dates the evaluation form can submit
DatasDeAvaliacao == {f.data : f \in Formularios}

ChamarObterAvaliacaoPorData ==
    /\ op = "inicio"
    /\ \E c \in Clientes, data \in DatasDeAvaliacao, falha \in BOOLEAN :
          /\ conexao \/ ~falha
          /\ op' = "obter_avaliacao_por_data"
          /\ args' = [cliente_id |-> c, data |-> data, falha |-> falha]
          /\ res' = obter_avaliacao_por_data(c, data, falha)
    /\ UNCHANGED ambiente

ChamarListarDatasAvaliacoes ==
    /\ op = "inicio"
    /\ \E c \in Clientes, falha \in BOOLEAN :
          /\ conexao \/ ~falha
          /\ op' = "listar_datas_avaliacoes"
          /\ args' = [cliente_id |-> c, falha |-> falha]
          /\ res' = listar_datas_avaliacoes(c, falha)
    /\ UNCHANGED ambiente

\* what the skinfold inputs of the form submit: each of the 7 sites between 0
\* and 100 mm in steps of 0.5 mm; here the 7 sites carry the same value
ValoresDobra == {1, 2, 4} \cup {10 * k : k \in 0..MaxDobra}

DobrasDoFormulario ==
    {[k \in {CHAVES_DOBRAS[i] : i \in 1..Len(CHAVES_DOBRAS)} |-> v] : v \in ValoresDobra}

\* the preview of the form: the estimate for the skinfolds typed in
ChamarCalcularGorduraPollock7DoFormulario ==
    /\ op = "inicio"
    /\ UNCHANGED ambiente
    /\ \E d \in DobrasDoFormulario, i \in Idades, g \in Generos,
          e1 \in ErrosBinarios, e2 \in ErrosBinarios :
          /\ op' = "calcular_gordura_pollock7"
          /\ args' = [dobras |-> d, idade |-> i, genero |-> g, e1 |-> e1, e2 |-> e2]
          /\ res' = calcular_gordura_pollock7(d, i, g, e1, e2)

ChamarCalcularPesoIdeal ==
    /\ op = "inicio"
    /\ UNCHANGED ambiente
    /\ \E h \in Alturas, g \in Generos, e1 \in ErrosBinarios, e2 \in ErrosBinarios :
          /\ op' = "calcular_peso_ideal"
          /\ args' = [altura_cm |-> h, genero |-> g, e1 |-> e1, e2 |-> e2]
          /\ res' = calcular_peso_ideal(h, g, e1, e2)

ChamarObterCorImc ==
    /\ op = "inicio"
    /\ UNCHANGED ambiente
    /\ \E imc \in ValoresImc :
          /\ op' = "obter_cor_imc"
          /\ args' = [imc |-> imc]
          /\ res' = obter_cor_imc(imc)

PercentuaisDeGordura == {-3} \cup {5 * k : k \in 0..MaxMeiosPercentuais}

ChamarCalcularMassasCorporais ==
    /\ op = "inicio"
    /\ UNCHANGED ambiente
    /\ \E p \in Pesos, pg \in PercentuaisDeGordura,
          e1 \in ErrosBinarios, e2 \in ErrosBinarios :
          /\ op' = "calcular_massas_corporais"
          /\ args' = [peso_kg |-> p, percentual_gordura |-> pg, e1 |-> e1, e2 |-> e2]
          /\ res' = calcular_massas_corporais(p, pg, e1, e2)

NextImc == ChamarCalcularImc \/ ChamarClassificarImc \/ Concluir

SpecImc == Init /\ [][NextImc]_vars

NextTmb == ChamarCalcularTmb \/ ChamarCalcularGastoCaloricoDiario \/ Concluir

SpecTmb == Init /\ [][NextTmb]_vars

NextGordura ==
    \/ ChamarCalcularPercentualGordura
    \/ ChamarClassificarPercentualGordura
    \/ Concluir

SpecGordura == Init /\ [][NextGordura]_vars

NextPollock7 == ChamarCalcularGorduraPollock7 \/ Concluir

SpecPollock7 == Init /\ [][NextPollock7]_vars

NextSimetria ==
    \/ ChamarCalcularDiferencaSimetria
    \/ ChamarAnalisarSimetriaCompleta
    \/ Concluir

SpecSimetria == Init /\ [][NextSimetria]_vars

NextVariacao == ChamarCalcularVariacaoEntreAvaliacoes \/ Concluir

SpecVariacao == Init /\ [][NextVariacao]_vars

NextRadar ==
    ChamarPrepararDadosGraficoRadar \/ ChamarPrepararComparacaoRadar \/ Concluir

SpecRadar == Init /\ [][NextRadar]_vars

NextIdade == ChamarCalcularIdade \/ PassarDias \/ Concluir

NextGenero ==
    \/ ChamarCalcularTmb \/ ChamarCalcularDensidadeCorporalPollock7
    \/ ChamarClassificarPercentualGordura \/ ChamarClassificarRcq \/ Concluir

SpecGenero == Init /\ [][NextGenero]_vars

NextRcq == ChamarCalcularRelacaoCinturaQuadril \/ ChamarClassificarRcq \/ Concluir

SpecRcq == Init /\ [][NextRcq]_vars

NextBinary64 ==
    \/ ChamarCalcularImcBinary64 \/ ChamarCalcularTmbBinary64
    \/ ChamarCalcularGastoCaloricoDiarioBinary64 \/ ChamarCalcularPesoIdealBinary64
    \/ ChamarCalcularDensidadeCorporalPollock7Binary64
    \/ ChamarCalcularPercentualGorduraBinary64
    \/ ChamarCalcularMassasCorporaisBinary64 \/ Concluir

SpecBinary64 == Init /\ [][NextBinary64]_vars

NextAvaliacoes ==
    \/ MudarConexao \/ ChamarAdicionarAvaliacao \/ ChamarObterHistoricoAvaliacoes
    \/ Concluir

SpecAvaliacoes == Init /\ [][NextAvaliacoes]_vars

NextHistorico ==
    \/ MudarConexao \/ ChamarAdicionarAvaliacao \/ ChamarObterHistoricoAvaliacoes
    \/ ChamarObterUltimaAvaliacao \/ ChamarObterPrimeiraAvaliacao
    \/ ChamarObterAvaliacaoPorData \/ ChamarListarDatasAvaliacoes \/ Concluir

SpecHistorico == Init /\ [][NextHistorico]_vars

NextFormularioDobras == ChamarCalcularGorduraPollock7DoFormulario \/ Concluir

SpecFormularioDobras == Init /\ [][NextFormularioDobras]_vars

NextPesoIdeal == ChamarCalcularPesoIdeal \/ Concluir

SpecPesoIdeal == Init /\ [][NextPesoIdeal]_vars

NextCorImc == ChamarObterCorImc \/ ChamarClassificarImc \/ Concluir

SpecCorImc == Init /\ [][NextCorImc]_vars

NextMassas == ChamarCalcularMassasCorporais \/ Concluir

SpecMassas == Init /\ [][NextMassas]_vars

NextSessao ==
    \/ CarregarSessao \/ SomarDobrasDaSessao \/ EstimarGorduraDaSessao
    \/ AnalisarSimetriaDaSessao \/ CompararSessoes \/ ProjetarRadarDaSessao
    \/ CompararRadarDasSessoes \/ CalcularRcqDaSessao \/ Concluir

SpecSessao == Init /\ [][NextSessao]_vars

SpecIdade == Init /\ [][NextIdade]_vars

Next ==
    \/ NextImc \/ NextTmb \/ NextGordura \/ NextPollock7 \/ NextSimetria
    \/ NextVariacao \/ NextRadar \/ NextIdade \/ NextSessao
    \/ NextGenero \/ NextRcq \/ NextBinary64 \/ NextAvaliacoes \/ NextHistorico
    \/ NextFormularioDobras \/ NextPesoIdeal \/ NextCorImc \/ NextMassas

Spec == Init /\ [][Next]_vars

(***************************************************************************)
(* Properties.                                                             *)
(***************************************************************************)
\* C1: classificar_imc returns, for every imc > 0, the label of the first
\* band whose inclusive upper bound is >= imc (18.5, 24.9, 29.9, 34.9, 39.9,
\* then grau III), "Não calculado" for imc <= 0, and never the fall-through
\* label "Não classificado"
C1_ClassificarImc ==
    op = "classificar_imc" =>
        LET imc == args.imc IN
        /\ (imc <= 0) = (res = "Não calculado")
        /\ (0 < imc /\ imc <= 1850) = (res = "Abaixo do peso")
        /\ (1850 < imc /\ imc <= 2490) = (res = "Peso normal")
        /\ (2490 < imc /\ imc <= 2990) = (res = "Sobrepeso")
        /\ (2990 < imc /\ imc <= 3490) = (res = "Obesidade grau I")
        /\ (3490 < imc /\ imc <= 3990) = (res = "Obesidade grau II")
        /\ (3990 < imc) = (res = "Obesidade grau III")
        /\ res # "Não classificado"

\* an imc of exactly 18.5 has been classified as "Abaixo do peso"
C1_Witness ==
    op = "classificar_imc" /\ args.imc = 1850 /\ res = "Abaixo do peso"

\* C2: calcular_imc is 0 when peso or altura is <= 0, and otherwise a value
\* with 2 decimals nearest to peso / (altura/100)^2
C2_CalcularImc ==
    op = "calcular_imc" =>
        LET p == args.peso_kg
            h == args.altura_cm
        IN  /\ (p <= 0 \/ h <= 0) => res = 0
            /\ (p > 0 /\ h > 0) =>
                  2 * Abs(400000 * p - res * h * h) <= h * h

\* 70.0 kg at 175.0 cm has been computed as 22.86
C2_Witness ==
    op = "calcular_imc" /\ args.peso_kg = 700 /\ args.altura_cm = 350 /\ res = 2286

\* C3 as stated: calcular_tmb(70, 175, 30) is 1673.8 for Masculino and 1507.8
\* for Feminino
C3_Original ==
    (op = "calcular_tmb" /\ args.peso_kg = 700 /\ args.altura_cm = 350
        /\ args.idade = 30) =>
        /\ args.genero = "Masculino" => res = 16738
        /\ args.genero = "Feminino" => res = 15078

\* C3 (amended): calcular_tmb is 0 when peso, altura or idade is <= 0, and
\* otherwise 10*peso + 6.25*altura - 5*idade + 5 (Masculino) or - 161
\* (Feminino) rounded to 1 decimal, an exact tie going to the even decimal; so
\* calcular_tmb(70, 175, 30) is 1648.8 for Masculino and 1482.8 for Feminino
C3_CalcularTmb ==
    op = "calcular_tmb" =>
        LET p == args.peso_kg
            h == args.altura_cm
            i == args.idade
            base == 1000 * p + 3125 * h - 5000 * i
            x == IF args.genero = "Masculino" THEN base + 5000 ELSE base - 161000
        IN  /\ (p <= 0 \/ h <= 0 \/ i <= 0) => res = 0
            /\ (p > 0 /\ h > 0 /\ i > 0 /\ args.genero \in {"Masculino", "Feminino"}) =>
                  /\ 2 * Abs(x - 100 * res) <= 100
                  /\ 2 * Abs(x - 100 * res) = 100 => res % 2 = 0
            /\ (p = 700 /\ h = 350 /\ i = 30 /\ args.genero = "Masculino") => res = 16488
            /\ (p = 700 /\ h = 350 /\ i = 30 /\ args.genero = "Feminino") => res = 14828

\* the TMB of a man of 70.0 kg, 175.0 cm and 30 years has been computed
C3_Witness ==
    /\ op = "calcular_tmb" /\ args.genero = "Masculino"
    /\ args.peso_kg = 700 /\ args.altura_cm = 350 /\ args.idade = 30
    /\ res = 16488

\* C4: for peso, altura and idade all > 0 the TMB returned for Feminino is
\* the TMB returned for Masculino on the same inputs minus 166.0
C4_TmbFemininoMenos166 ==
    (op = "calcular_tmb" /\ args.genero = "Feminino"
        /\ args.peso_kg > 0 /\ args.altura_cm > 0 /\ args.idade > 0) =>
        res = calcular_tmb(args.peso_kg, args.altura_cm, args.idade, "Masculino") - 1660

\* the TMB of a woman has been computed from a value that is a tie at one
\* decimal (6.25 * 103.0 = 643.75)
C4_Witness ==
    /\ op = "calcular_tmb" /\ args.genero = "Feminino"
    /\ args.peso_kg > 0 /\ args.idade > 0 /\ args.altura_cm = 206
    /\ res > 0

\* the factor the claim gives for each activity level, milesimos
C5_Fator(nivel) ==
    CASE nivel = "Sedentário"          -> 1200
      [] nivel = "Levemente ativo"     -> 1375
      [] nivel = "Moderadamente ativo" -> 1550
      [] nivel = "Muito ativo"         -> 1725
      [] nivel = "Extremamente ativo"  -> 1900
      [] OTHER                         -> 0

\* C5: calcular_gasto_calorico_diario is 0 for tmb <= 0; for tmb > 0 and a
\* recognized level it is a value with 1 decimal nearest to tmb * factor; for
\* any other level string it is the result for "Sedentário"
C5_GastoCaloricoDiario ==
    op = "calcular_gasto_calorico_diario" =>
        LET t == args.tmb
            n == args.nivel_atividade
        IN  /\ t <= 0 => res = 0
            /\ (t > 0 /\ C5_Fator(n) # 0) =>
                  2 * Abs(t * C5_Fator(n) - 1000 * res) <= 1000
            /\ C5_Fator(n) = 0 =>
                  res = calcular_gasto_calorico_diario(t, "Sedentário", args.e)

\* an unrecognized level has been given with a positive tmb: 1673.8 * 1.2
C5_Witness ==
    /\ op = "calcular_gasto_calorico_diario"
    /\ args.tmb = 16738 /\ args.nivel_atividade = "Sedentary"
    /\ res = 20086

\* C6: calcular_percentual_gordura returns a value in [0, 60] for every
\* density, however small or large, and 0 for every density <= 0
C6_PercentualLimitado ==
    op = "calcular_percentual_gordura" =>
        /\ 0 <= res /\ res <= 600
        /\ args.densidade_corporal <= 0 => res = 0

\* a density of 0.00001 has been converted and the result is the ceiling 60.0
C6_Witness ==
    op = "calcular_percentual_gordura" /\ args.densidade_corporal = 1 /\ res = 600

\* C7: classificar_percentual_gordura returns "Não calculado" for every
\* percent <= 0 and otherwise the first band of the gender's table whose
\* inclusive upper bound is >= percent (Masculino 5.9, 13.9, 17.9, 24.9;
\* Feminino 13.9, 20.9, 24.9, 31.9; above the last bound Obesidade)
C7_ClassificarPercentualGordura ==
    (op = "classificar_percentual_gordura"
        /\ args.genero \in {"Masculino", "Feminino"}) =>
        LET pg == args.percentual
            m == args.genero = "Masculino"
            l1 == IF m THEN 59 ELSE 139
            l2 == IF m THEN 139 ELSE 209
            l3 == IF m THEN 179 ELSE 249
            l4 == IF m THEN 249 ELSE 319
        IN  /\ (pg <= 0) = (res = "Não calculado")
            /\ (0 < pg /\ pg <= l1) = (res = "Essencial")
            /\ (l1 < pg /\ pg <= l2) = (res = "Atlético")
            /\ (l2 < pg /\ pg <= l3) = (res = "Fitness")
            /\ (l3 < pg /\ pg <= l4) = (res = "Aceitável")
            /\ (l4 < pg) = (res = "Obesidade")

\* 20.0 percent has been classified for a woman as "Atlético"
C7_Witness ==
    /\ op = "classificar_percentual_gordura"
    /\ args.genero = "Feminino" /\ args.percentual = 200 /\ res = "Atlético"

\* the sum the claim gives: the 7 named sites, a missing one counting as 0
C8_Soma(d) ==
    get(d, "peitoral") + get(d, "axilar_media") + get(d, "triceps")
        + get(d, "subescapular") + get(d, "abdominal") + get(d, "suprailiaca")
        + get(d, "coxa")

\* C8: calcular_gordura_pollock7 returns the sum of the 7 named sites (a
\* missing key counts as 0, other keys are ignored), the density of (sum,
\* idade, genero), the Siri percent of that density and the classification of
\* that percent; when the sum or idade is <= 0 the density and the percent
\* are 0 and the classification is "Não calculado"
C8_GorduraPollock7 ==
    op = "calcular_gordura_pollock7" =>
        LET soma == C8_Soma(args.dobras) IN
        /\ res.soma_dobras = soma
        /\ res.densidade_corporal =
              calcular_densidade_corporal_pollock7(soma, args.idade, args.genero, args.e1)
        /\ res.percentual_gordura =
              calcular_percentual_gordura(res.densidade_corporal, args.e2)
        /\ res.classificacao =
              classificar_percentual_gordura(res.percentual_gordura, args.genero)
        /\ (soma <= 0 \/ args.idade <= 0) =>
              /\ res.densidade_corporal = 0
              /\ res.percentual_gordura = 0
              /\ res.classificacao = "Não calculado"

\* a mapping that lacks the site "coxa" and carries the key "biceps" has been
\* computed for a person of 30 years and classified "Fitness"
C8_Witness ==
    /\ op = "calcular_gordura_pollock7"
    /\ "biceps" \in DOMAIN args.dobras /\ "coxa" \notin DOMAIN args.dobras
    /\ args.idade = 30 /\ res.soma_dobras > 0
    /\ res.percentual_gordura > 0 /\ res.classificacao = "Fitness"

\* C9: calcular_diferenca_simetria returns diferenca_cm = |direito -
\* esquerdo| to 1 decimal; diferenca_percentual = the value with 1 decimal
\* nearest to |direito - esquerdo| / esquerdo * 100 when esquerdo > 0, and 0
\* when esquerdo <= 0; lado_dominante "Direito" iff direito > esquerdo,
\* "Esquerdo" iff esquerdo > direito, "Igual" iff they are equal; so (30, 28)
\* gives 2.0, 7.1, "Direito"
C9_DiferencaSimetria ==
    op = "calcular_diferenca_simetria" =>
        LET d == args.lado_direito
            q == args.lado_esquerdo
            dif == IF d >= q THEN d - q ELSE q - d
        IN  /\ res.diferenca_cm = 5 * dif
            /\ q > 0 => 2 * Abs(1000 * dif - res.diferenca_percentual * q) <= q
            /\ q <= 0 => res.diferenca_percentual = 0
            /\ (res.lado_dominante = "Direito") = (d > q)
            /\ (res.lado_dominante = "Esquerdo") = (q > d)
            /\ (res.lado_dominante = "Igual") = (d = q)
            /\ (d = 60 /\ q = 56) =>
                  /\ res.diferenca_cm = 20
                  /\ res.diferenca_percentual = 71
                  /\ res.lado_dominante = "Direito"

\* the sides 30.0 and 28.0 have been compared
C9_Witness ==
    /\ op = "calcular_diferenca_simetria"
    /\ args.lado_direito = 60 /\ args.lado_esquerdo = 56
    /\ res.diferenca_percentual = 71

\* the pairs of the registry with both sides present and > 0 in a mapping
C10_ParesMedidos(pm) ==
    {i \in 1..7 : get(pm, PARES_SIMETRIA[i][1]) > 0 /\ get(pm, PARES_SIMETRIA[i][2]) > 0}

\* an entry is the entry of pair i: it carries the two values of the pair
C10_EntradaDoPar(entrada, pm, i) ==
    /\ entrada.valor_direito = get(pm, PARES_SIMETRIA[i][1])
    /\ entrada.valor_esquerdo = get(pm, PARES_SIMETRIA[i][2])

\* C10: analisar_simetria_completa returns an entry for a registered pair if
\* and only if both sides of the pair are present with a value > 0; a pair
\* with a side that is 0 or missing gives no entry; the entries are in the
\* order of the registry and are at most 7
C10_SimetriaCompleta ==
    op = "analisar_simetria_completa" =>
        LET pm == args.perimetros
            medidos == C10_ParesMedidos(pm)
        IN  /\ Len(res) = Cardinality(medidos)
            /\ Len(res) <= 7
            /\ \A i \in 1..7 :
                  (i \in medidos) =
                      (\E j \in 1..Len(res) : C10_EntradaDoPar(res[j], pm, i))
            /\ \A j \in 1..Len(res) :
                  /\ res[j].valor_direito > 0 /\ res[j].valor_esquerdo > 0
                  /\ \E i \in medidos : C10_EntradaDoPar(res[j], pm, i)
            /\ \A j, k \in 1..Len(res) : j < k =>
                  \E i1, i2 \in medidos :
                      /\ i1 < i2
                      /\ C10_EntradaDoPar(res[j], pm, i1)
                      /\ C10_EntradaDoPar(res[k], pm, i2)

\* a mapping with one side of the first pair at 0 and one side of another
\* pair missing has been analysed: 5 entries, none for those two pairs
C10_Witness ==
    /\ op = "analisar_simetria_completa"
    /\ "braco_direito_relaxado" \in DOMAIN args.perimetros
    /\ args.perimetros["braco_direito_relaxado"] = 0
    /\ "panturrilha_esquerda" \notin DOMAIN args.perimetros
    /\ Len(res) = 5
    /\ res[1].valor_direito = PerimetroDe("braco_direito_contraido")

\* the registered keys whose value is > 0 in both mappings
C11_ChavesMedidas(anterior, atual) ==
    {k \in ChavesPerimetros : get(anterior, k) > 0 /\ get(atual, k) > 0}

\* C11 as stated: the keys of the result are the registered keys > 0 in both
\* mappings, the status follows the sign of atual - anterior, and
\* diferenca_percentual is (atual - anterior) / anterior * 100
C11_Original ==
    op = "calcular_variacao_entre_avaliacoes" =>
        LET anterior == args.perimetros_anterior
            atual == args.perimetros_atual
        IN  /\ DOMAIN res = C11_ChavesMedidas(anterior, atual)
            /\ \A k \in DOMAIN res :
                  LET dif == get(atual, k) - get(anterior, k) IN
                  /\ (res[k].status = "aumento") = (dif > 0)
                  /\ (res[k].status = "reducao") = (dif < 0)
                  /\ (res[k].status = "igual") = (dif = 0)
                  /\ res[k].diferenca_percentual * get(anterior, k) = 1000 * dif

\* C11 (amended): the keys of the result are exactly the registered keys
\* whose value is > 0 in both mappings (a key that is 0, negative or missing
\* in either is absent); for each key the status is "aumento" iff atual -
\* anterior > 0, "reducao" iff < 0, "igual" iff = 0, and diferenca_percentual
\* is (atual - anterior) / anterior * 100 rounded to 1 decimal
C11_Variacao ==
    op = "calcular_variacao_entre_avaliacoes" =>
        LET anterior == args.perimetros_anterior
            atual == args.perimetros_atual
        IN  /\ DOMAIN res = C11_ChavesMedidas(anterior, atual)
            /\ \A k \in DOMAIN res :
                  LET dif == get(atual, k) - get(anterior, k) IN
                  /\ (res[k].status = "aumento") = (dif > 0)
                  /\ (res[k].status = "reducao") = (dif < 0)
                  /\ (res[k].status = "igual") = (dif = 0)
                  /\ 2 * Abs(1000 * dif - res[k].diferenca_percentual * get(anterior, k))
                        <= get(anterior, k)

\* two evaluations have been compared in which "cintura" was not measured
\* the first time and the contracted right arm grew from 44.0 to 45.5 cm:
\* 18 keys are reported, the arm as an increase of 3.4 %
C11_Witness ==
    /\ op = "calcular_variacao_entre_avaliacoes"
    /\ "cintura" \in DOMAIN args.perimetros_atual
    /\ "cintura" \notin DOMAIN args.perimetros_anterior
    /\ Cardinality(DOMAIN res) = 18
    /\ args.perimetros_anterior["braco_direito_contraido"] = 88
    /\ args.perimetros_atual["braco_direito_contraido"] = 91
    /\ res["braco_direito_contraido"].status = "aumento"
    /\ res["braco_direito_contraido"].diferenca_percentual = 34


\* C12: preparar_dados_grafico_radar returns, for every mapping (the empty one
\* too), exactly 10 categories and 10 values in the order of MEDIDAS_RADAR,
\* the value being 0 for a missing key; preparar_comparacao_radar returns the
\* same categories and two series of 10 values, each equal position by
\* position to the single-mapping projection of its own mapping
C12_Radar ==
    /\ op = "preparar_dados_grafico_radar" =>
          /\ Len(res.categorias) = 10
          /\ Len(res.valores) = 10
          /\ \A i \in 1..10 :
                /\ res.categorias[i] = obter_nome_amigavel(MEDIDAS_RADAR[i])
                /\ res.valores[i] =
                      IF MEDIDAS_RADAR[i] \in DOMAIN args.perimetros
                      THEN args.perimetros[MEDIDAS_RADAR[i]] ELSE 0
    /\ op = "preparar_comparacao_radar" =>
          /\ res.categorias =
                preparar_dados_grafico_radar(args.perimetros_anterior).categorias
          /\ Len(res.categorias) = 10
          /\ Len(res.valores_anterior) = 10
          /\ Len(res.valores_atual) = 10
          /\ \A i \in 1..10 :
                /\ res.valores_anterior[i] =
                      preparar_dados_grafico_radar(args.perimetros_anterior).valores[i]
                /\ res.valores_atual[i] =
                      preparar_dados_grafico_radar(args.perimetros_atual).valores[i]

\* the empty mapping has been projected: 10 categories, the first "Ombro",
\* and 10 zeros
C12_Witness ==
    /\ op = "preparar_dados_grafico_radar"
    /\ DOMAIN args.perimetros = {}
    /\ Len(res.categorias) = 10
    /\ res.categorias[1] = <<"Ombro">>
    /\ \A i \in 1..10 : res.valores[i] = 0


\* C13: every calculator and analyzer operation is a function of its explicit
\* arguments alone; for calcular_idade: a call returns the age that an
\* earlier call with the same data_nascimento returned, whenever it is made
C13_FuncaoPura ==
    (/\ op = "calcular_idade"
     /\ idade_lembrada.lembrada
     /\ idade_lembrada.data_nascimento = args.data_nascimento)
        => res = idade_lembrada.idade

\* C17: for a present birth date calcular_idade returns the current year minus
\* the year of birth, less one exactly when the current (month, day) precedes
\* the (month, day) of birth in lexicographic order; for an empty birth date
\* it returns 0
C17_CalcularIdade ==
    op = "calcular_idade" =>
        LET n == args.data_nascimento IN
        IF n = <<>> THEN res = 0
        ELSE LET precede == \/ hoje.month < n[2]
                            \/ hoje.month = n[2] /\ hoje.day < n[3]
             IN  res = hoje.year - n[1] - (IF precede THEN 1 ELSE 0)

\* the age of a client born on 2000-06-15 has been computed on a 15th of
\* June: the birthday counts, no year is taken off
C17_Witness ==
    /\ op = "calcular_idade"
    /\ args.data_nascimento = <<2000, 6, 15>>
    /\ hoje.month = 6
    /\ hoje.day = 15
    /\ res = hoje.year - 2000


\* C14: no operation modifies the skinfold or circumference mapping it
\* receives: a step that makes a call (sum of skinfolds, pollock7, symmetry
\* report, variation, radar series, waist-hip ratio) leaves every mapping of
\* the loaded evaluations with the keys and values it had before the call
C14_Quadro ==
    [][op' # "inicio" => sessao' = sessao]_vars

\* the symmetry report of a loaded evaluation in which "cintura" is missing
\* has been produced, and the evaluation still has no "cintura"
C14_Witness ==
    /\ op = "analisar_simetria_completa"
    /\ args.perimetros = sessao.perimetros
    /\ "cintura" \notin DOMAIN sessao.perimetros
    /\ "ombro" \in DOMAIN sessao.perimetros
    /\ Len(res) = 7


\* a gender that is neither of the two recognized tokens, whatever its case
C15_GeneroDesconhecido(genero) == lower(genero) \notin {"masculino", "feminino"}

\* C15: for a gender that is neither recognized token, calcular_tmb,
\* calcular_densidade_corporal_pollock7, classificar_percentual_gordura and
\* classificar_rcq do not return the result they return for "Masculino" or
\* for "Feminino" (inputs for which the result depends on no gender, the
\* guarded ones, aside)
C15_GeneroNaoAssumido ==
    /\ (/\ op = "calcular_tmb"
        /\ C15_GeneroDesconhecido(args.genero)
        /\ args.peso_kg > 0 /\ args.altura_cm > 0 /\ args.idade > 0)
          => \A g \in {"Masculino", "Feminino"} :
                res # calcular_tmb(args.peso_kg, args.altura_cm, args.idade, g)
    /\ (/\ op = "calcular_densidade_corporal_pollock7"
        /\ C15_GeneroDesconhecido(args.genero)
        /\ args.soma_dobras > 0 /\ args.idade > 0)
          => \A g \in {"Masculino", "Feminino"} :
                res # calcular_densidade_corporal_pollock7(
                          args.soma_dobras, args.idade, g, args.e)
    /\ (/\ op = "classificar_percentual_gordura"
        /\ C15_GeneroDesconhecido(args.genero)
        /\ args.percentual > 0)
          => \A g \in {"Masculino", "Feminino"} :
                res # classificar_percentual_gordura(args.percentual, g)
    /\ (/\ op = "classificar_rcq"
        /\ C15_GeneroDesconhecido(args.genero)
        /\ args.rcq # None)
          => \A g \in {"Masculino", "Feminino"} :
                res # classificar_rcq(args.rcq, g)

\* the recognized token a gender string is matched to
C16_Ramo(genero) == IF lower(genero) = "masculino" THEN "Masculino" ELSE "Feminino"

\* C16: for every gender string g each of the four gender-dependent operations
\* returns what it returns for "Masculino" when lower(g) = "masculino", and
\* otherwise exactly what it returns for "Feminino"
C16_GeneroUniforme ==
    /\ op = "calcular_tmb" =>
          res = calcular_tmb(args.peso_kg, args.altura_cm, args.idade,
                             C16_Ramo(args.genero))
    /\ op = "calcular_densidade_corporal_pollock7" =>
          res = calcular_densidade_corporal_pollock7(
                    args.soma_dobras, args.idade, C16_Ramo(args.genero), args.e)
    /\ op = "classificar_percentual_gordura" =>
          res = classificar_percentual_gordura(args.percentual, C16_Ramo(args.genero))
    /\ op = "classificar_rcq" =>
          res = classificar_rcq(args.rcq, C16_Ramo(args.genero))

\* a ratio of 0.95 has been classified for the gender "MASCULINO": moderate
\* risk, as for "Masculino" and unlike "Feminino"
C16_Witness ==
    /\ op = "classificar_rcq"
    /\ args.genero = "MASCULINO"
    /\ args.rcq = Algum(95)
    /\ res = "Risco moderado"
    /\ res # classificar_rcq(args.rcq, "Feminino")

\* C19: classificar_rcq follows the documented thresholds: for a man every
\* ratio > 0.90 is "Alto risco", for a woman every ratio > 0.85 is
\* "Alto risco"
C19_RiscoDocumentado ==
    (op = "classificar_rcq" /\ args.rcq # None) =>
        /\ (lower(args.genero) = "masculino" /\ args.rcq[1] > 90)
              => res = "Alto risco"
        /\ (lower(args.genero) = "feminino" /\ args.rcq[1] > 85)
              => res = "Alto risco"


\* the calls of the seven calculators of C18
C18_Operacoes ==
    {"calcular_imc(binary64)", "calcular_tmb(binary64)",
     "calcular_gasto_calorico_diario(binary64)", "calcular_peso_ideal(binary64)",
     "calcular_densidade_corporal_pollock7(binary64)",
     "calcular_percentual_gordura(binary64)", "calcular_massas_corporais(binary64)"}

\* a guarded input of the call is <= 0 (for the body masses: the weight is
\* <= 0 or the percent is < 0)
C18_Degenerado ==
    CASE op = "calcular_imc(binary64)" ->
            args.peso_kg.sinal <= 0 \/ args.altura_cm.sinal <= 0
      [] op = "calcular_tmb(binary64)" ->
            args.peso_kg.sinal <= 0 \/ args.altura_cm.sinal <= 0 \/ args.idade <= 0
      [] op = "calcular_gasto_calorico_diario(binary64)" -> args.tmb.sinal <= 0
      [] op = "calcular_peso_ideal(binary64)" -> args.altura_cm.sinal <= 0
      [] op = "calcular_densidade_corporal_pollock7(binary64)" ->
            args.soma_dobras.sinal <= 0 \/ args.idade <= 0
      [] op = "calcular_percentual_gordura(binary64)" ->
            args.densidade_corporal.sinal <= 0
      [] op = "calcular_massas_corporais(binary64)" ->
            args.peso_kg.sinal <= 0 \/ args.percentual_gordura.sinal < 0
      [] OTHER -> FALSE

\* C18: no calculator fails on a numeric input: for every weight, height,
\* age, bmr, skinfold sum, density and percent (zero and negative included)
\* the seven calculators return normally, and they return their zero
\* sentinel whenever a guarded input is <= 0
C18_SemFalha ==
    op \in C18_Operacoes =>
        /\ res.excecao = "nenhuma"
        /\ C18_Degenerado => res.retorno = "zero"


\* the content of an evaluation: its date, weight, height, activity level,
\* circumferences and skinfolds, as far as it has them
C20_Conteudo(avaliacao) ==
    [c \in {"data", "peso_kg", "altura_cm", "nivel_atividade", "perimetros",
            "dobras_cutaneas"} \cap DOMAIN avaliacao |-> avaliacao[c]]

\* C20: once adicionar_avaliacao(cliente_id, avaliacao) has returned True,
\* every later obter_historico_avaliacoes(cliente_id) contains that
\* evaluation with the date, weight, height, activity level, circumferences
\* and skinfolds that were saved, whichever store serves each call
C20_Persistencia ==
    op = "obter_historico_avaliacoes" =>
        \A s \in salvas :
            s.cliente_id = args.cliente_id =>
                \E i \in 1..Len(res) :
                    C20_Conteudo(res[i]) = C20_Conteudo(s.avaliacao)


\* the <<id, data>> of the evaluations of a client that the store in use
\* serves to the call
C21_Servidas(cliente_id, falha) ==
    IF conexao
    THEN IF falha THEN {}
         ELSE {<<planilha[i].id, planilha[i].data>> :
                  i \in {j \in 1..Len(planilha) : planilha[j].cliente_id = cliente_id}}
    ELSE IF cliente_id \notin DOMAIN arquivo THEN {}
         ELSE {<<arquivo[cliente_id][i].id, arquivo[cliente_id][i].data>> :
                  i \in 1..Len(arquivo[cliente_id])}

C22_ClientesExistentes == IF conexao THEN aba_clientes ELSE DOMAIN arquivo

\* C22: adicionar_avaliacao returns True only when a client with the given
\* cliente_id exists and the evaluation was stored under it; when no such
\* client exists it returns False and nothing is stored for it
C22_SoClienteExistente ==
    /\ op = "adicionar_avaliacao" =>
          /\ res = TRUE =>
                /\ args.cliente_id \in C22_ClientesExistentes
                /\ [cliente_id |-> args.cliente_id, avaliacao |-> args.avaliacao] \in salvas
          /\ args.cliente_id \notin C22_ClientesExistentes => res = FALSE
    /\ \A i \in 1..Len(planilha) : planilha[i].cliente_id \in aba_clientes
    /\ \A s \in salvas : s.cliente_id \in aba_clientes \cup DOMAIN arquivo


\* C23: every recorded evaluation of a client is the one that
\* obter_avaliacao_por_data returns for its date, so any two distinct
\* evaluations of the history can be loaded by their dates and compared
C23_CadaAvaliacaoPorSuaData ==
    op = "obter_avaliacao_por_data" =>
        \A s \in C21_Servidas(args.cliente_id, args.falha) :
            s[2] = args.data => res # None /\ res[1].id = s[1]


\* C24: for a fixed age > 0 and gender, the percent fat of
\* calcular_gordura_pollock7 is non-decreasing in the skinfold sum over the
\* range of the form (0 < sum <= 700 mm): no smaller sum gives a higher percent
C24_GorduraMonotona ==
    (/\ op = "calcular_gordura_pollock7"
     /\ args.idade > 0
     /\ res.soma_dobras > 0
     /\ res.soma_dobras <= 1400) =>
        \A d \in DobrasDoFormulario, e1 \in ErrosBinarios, e2 \in ErrosBinarios :
            LET menor == calcular_gordura_pollock7(d, args.idade, args.genero, e1, e2)
            IN  (menor.soma_dobras > 0 /\ menor.soma_dobras <= res.soma_dobras) =>
                    menor.percentual_gordura <= res.percentual_gordura

\* C25: whenever the skinfold sum and the age are both > 0,
\* calcular_gordura_pollock7 returns one of the five fat categories, never
\* the sentinel "Não calculado"
C25_CategoriaReal ==
    (/\ op = "calcular_gordura_pollock7"
     /\ args.idade > 0
     /\ res.soma_dobras > 0) =>
        res.classificacao \in {"Essencial", "Atlético", "Fitness", "Aceitável", "Obesidade"}


\* C26: for every height > 0, every weight between the two limits returned by
\* calcular_peso_ideal, limits included, has a BMI that classificar_imc calls
\* "Peso normal"
C26_FaixaIdealNormal ==
    (op = "calcular_peso_ideal" /\ args.altura_cm > 0) =>
        \A w \in res[1]..res[2], e \in ErrosBinarios :
            classificar_imc(calcular_imc(w, args.altura_cm, e)) = "Peso normal"

\* the colour that stands for each band of classificar_imc
C27_CorDaFaixa(classificacao) ==
    CASE classificacao = "Não calculado"  -> "#808080"
      [] classificacao = "Abaixo do peso" -> "#3498db"
      [] classificacao = "Peso normal"    -> "#2ecc71"
      [] classificacao = "Sobrepeso"      -> "#f39c12"
      [] OTHER                            -> "#e74c3c"

\* C27: for every BMI value the colour of obter_cor_imc is the colour of the
\* band that classificar_imc assigns to the value: gray for "Não calculado",
\* blue for "Abaixo do peso", green for "Peso normal", orange for "Sobrepeso",
\* red for the three grades of "Obesidade"
C27_CorConformeFaixa ==
    op = "obter_cor_imc" => res = C27_CorDaFaixa(classificar_imc(args.imc))


\* C28: for every weight > 0 and every percent fat in [0, 60], both given to
\* one decimal, the two values of calcular_massas_corporais add up to the
\* weight: massa_gorda + massa_magra = peso_kg
C28_MassasSomamPeso ==
    (/\ op = "calcular_massas_corporais"
     /\ args.peso_kg > 0
     /\ args.percentual_gordura >= 0
     /\ args.percentual_gordura <= 600) =>
        res.massa_gorda + res.massa_magra = args.peso_kg


\* the status of the opposite variation
C29_StatusTrocado(status) ==
    CASE status = "aumento" -> "reducao"
      [] status = "reducao" -> "aumento"
      [] OTHER              -> status

\* C29: calcular_variacao_entre_avaliacoes is antisymmetric in its two
\* mappings: the variation from b to a has the same keys as the variation
\* from a to b, and for each key the opposite diferenca_cm and the swapped
\* status (aumento with reducao, igual with igual)
C29_Antissimetria ==
    op = "calcular_variacao_entre_avaliacoes" =>
        \A e \in ErrosBinarios :
            LET inversa == calcular_variacao_entre_avaliacoes(
                               args.perimetros_atual, args.perimetros_anterior, e)
            IN  /\ DOMAIN inversa = DOMAIN res
                /\ \A chave \in DOMAIN res :
                      /\ inversa[chave].diferenca_cm = -res[chave].diferenca_cm
                      /\ inversa[chave].status = C29_StatusTrocado(res[chave].status)
                      /\ res[chave].status \in {"aumento", "reducao", "igual"}

\* a variation has been computed in which one circumference grew, one shrank
\* and one stayed, and one key was left out
C29_Witness ==
    /\ op = "calcular_variacao_entre_avaliacoes"
    /\ \E a, r, i \in DOMAIN res :
          /\ res[a].status = "aumento" /\ res[a].diferenca_cm > 0
          /\ res[r].status = "reducao" /\ res[r].diferenca_cm < 0
          /\ res[i].status = "igual" /\ res[i].diferenca_cm = 0
    /\ \E chave \in DOMAIN args.perimetros_anterior :
          chave \notin DOMAIN res


\* C30: each entry of the list of analisar_simetria_completa is identified by
\* its membro: no two entries of one report carry the same membro
C30_MembroUnico ==
    op = "analisar_simetria_completa" =>
        \A i, j \in 1..Len(res) : res[i].membro = res[j].membro => i = j

====
